---- MODULE Spec2Model ----
(***************************************************************************)
(* Model of the record-harvesting engine of Extractor_V18.py (SAPBrowser): *)
(* the scroll driver scroll_to_load_all_items, the row locator             *)
(* find_table_rows with its 5-second cache, the pagination advance         *)
(* click_pagination_next, the record validator                             *)
(* _validate_and_correct_issue_data and the coordinator                    *)
(* extract_issues_data.                                                    *)
(*                                                                         *)
(* The browser is modelled by a fixture (fix) that never changes and a DOM *)
(* state (dom) that the engine's actions change.  Time is counted in       *)
(* milliseconds of time.sleep() since the row cache was last filled: the   *)
(* real elapsed time is at least that, so a cached answer is possible only *)
(* while the slept time is below the TTL, and a fresh query is always      *)
(* possible.                                                               *)
(***************************************************************************)
EXTENDS Integers, Sequences, FiniteSets, TLC

VARIABLES
    fix,                  \* the fixture: what the page is (never changes)
    dom,                  \* the page now: screen, rendered rows, growing limit
    element_cache,        \* self.element_cache["table_rows"]
    pc,                   \* position of the engine
    table_type,           \* result of _detect_table_type
    has_pagination,       \* scroll_to_load_all_items: has_pagination
    total_expected,       \* scroll_to_load_all_items: total_expected
    max_attempts,         \* scroll_to_load_all_items: max_attempts
    attempt,              \* loop index of scroll_to_load_all_items
    previous_rows_count,  \* scroll_to_load_all_items: previous_rows_count
    no_change_count,      \* scroll_to_load_all_items: no_change_count
    last,                 \* what the last loop iteration saw and did
    stats,                \* counters of clicks issued on the page
    hv,                   \* extract_issues_data: its locals and its result
    vd                    \* the validator under test: input and outputs

vars == <<fix, dom, element_cache, pc, table_type, has_pagination,
          total_expected, max_attempts, attempt, previous_rows_count,
          no_change_count, last, stats, hv, vd>>

Min(a, b) == IF a < b THEN a ELSE b

Max(a, b) == IF a > b THEN a ELSE b

(***************************************************************************)
(* Bounds of the model                                                     *)
(***************************************************************************)
\* largest row count the unconstrained page can render
MaxRows == 20

\* max_attempts handed to the scroll driver on the unconstrained page
MaxAttemptsFree == 21

\* total_expected handed to the scroll driver on the unconstrained page
ExpectedFree == 20

\* how far below ExpectedFree the unconstrained page's row counts start
FreeSlack == 2

\* how many rows fewer than ExpectedFree the shorter growing page has
MonoShort == 5

\* a max_attempts too small for any streak to reach the safety valve
ShortAttempts == 10

(***************************************************************************)
(* Program constants                                                       *)
(***************************************************************************)
CacheTTL == 5000

DefaultMaxAttempts == 100

PaginationStreak == 5

AltStrategyStreak == 5

NoChangeThreshold == 10

SafetyValveStreak == 20

HighCoverageStreak == 5

MaxPages == 20

EarlyExitRows == 75

DefaultTotal == 100

NumSelectors == 17

(***************************************************************************)
(* The 5-second row cache                                                  *)
(***************************************************************************)
EmptyCache == [has |-> FALSE, rows |-> 0, screen |-> 1, age |-> 0]

\* time.sleep(ms / 1000): the cache entry is at least ms older
Slept(cache, ms) == [cache EXCEPT !.age = Min(CacheTTL, @ + ms)]


(***************************************************************************)
(* The page (browser collaborator)                                         *)
(*                                                                         *)
(* fix.kind = "free": a page whose row count after each scroll or click is *)
(* arbitrary and whose "next" click may succeed or fail.                   *)
(* fix.kind = "det":  a page made of fix.sizes[k] rows on screen k; a      *)
(* scroll renders fix.step more rows up to dom.limit; fix.pager says which *)
(* control the page offers: "next" (a pager whose control on the last      *)
(* screen is disabled or absent, fix.lastCtl), "more" (a "show more"       *)
(* button shown once dom.limit rows are rendered, loading fix.batch more   *)
(* rows per click), "inert" (a control that matches the pagination         *)
(* selectors, accepts the click and changes nothing) or "none".            *)
(* fix.pager = "link" is a "next" pager whose control is a link with the   *)
(* text "Next" and no class or aria-label: no selector of                  *)
(* check_for_pagination matches it, the script of the third alternative    *)
(* strategy does.                                                          *)
(* fix.kind = "flaky": a "det" page whose browser calls may raise: in each  *)
(* loop iteration one call site may fail (Faults).                         *)
(***************************************************************************)
ScreenSize(d) == fix.sizes[d.screen]

\* the row counts the unconstrained page can show
FreeRows == {0} \cup {r \in 0..MaxRows : r >= ExpectedFree - FreeSlack}

\* the page after one scroll action (_scroll_standard_ui5_table,
\* _scroll_responsive_table, _scroll_grid_table or _scroll_generic)
scroll_effect(d) ==
    IF fix.kind = "free"
    THEN {[d EXCEPT !.rendered = r] : r \in FreeRows}
    ELSE {[d EXCEPT !.rendered = Min(Min(ScreenSize(d), d.limit), @ + fix.step)]}

\* the page after the window-level scrolls and key presses of
\* _apply_alternative_scroll_strategy
alt_scroll_effect(d) == IF fix.kind = "free" THEN {d} ELSE scroll_effect(d)

\* time.sleep(0.2) per container in _scroll_standard_ui5_table; the other
\* scroll techniques do not sleep
ScrollSleep(tt) == IF tt = "standard_ui5" THEN 200 ELSE 0

detect_table_type(fp) ==
    IF fp.standard_ui5 > 0 THEN "standard_ui5"
    ELSE IF fp.responsive_table > 0 THEN "responsive_table"
    ELSE IF fp.grid_table > 0 THEN "grid_table"
    ELSE "unknown"

\* what check_for_pagination finds: "none" stands for None, the other
\* values for a non-empty element list holding that control
check_for_pagination(d) ==
    IF fix.kind = "free"
    THEN (IF fix.pager = "next" THEN "next" ELSE "none")
    ELSE CASE fix.pager = "next" ->
                  IF d.screen < Len(fix.sizes) THEN "next"
                  ELSE IF fix.lastCtl = "disabled" THEN "next_disabled"
                  ELSE "none"
           [] fix.pager = "more" ->
                  IF d.rendered >= d.limit /\ d.limit < ScreenSize(d)
                  THEN "more" ELSE "none"
           [] fix.pager = "inert" -> "inert"
           [] OTHER -> "none"

\* the page after a click on the control ctl (the unconstrained page
\* changes its row count at the next scroll, whatever was clicked)
click_effect(ctl, d) ==
    IF fix.kind = "free"
    THEN {d}
    ELSE CASE ctl = "next" ->
                  {[screen |-> d.screen + 1,
                    rendered |-> fix.sizes[d.screen + 1],
                    limit |-> fix.sizes[d.screen + 1]]}
           [] ctl = "more" ->
                  {[d EXCEPT !.rendered = Min(ScreenSize(d), d.limit + fix.batch),
                             !.limit = Min(ScreenSize(d), d.limit + fix.batch)]}
           [] OTHER -> {d}

\* click_pagination_next(pagination_elements): the set of its possible
\* outcomes.  ok is the returned boolean; slept the time.sleep() total.
click_pagination_next(ctl, d) ==
    CASE ctl = "none" ->
             {[ok |-> FALSE, dom |-> d, slept |-> 0, clicked |-> FALSE]}
      [] ctl = "next_disabled" ->
             {[ok |-> FALSE, dom |-> d, slept |-> 0, clicked |-> FALSE]}
      [] OTHER ->
             {[ok |-> TRUE, dom |-> d2, slept |-> 2500, clicked |-> TRUE]
                 : d2 \in click_effect(ctl, d)}
             \cup
             (IF fix.kind = "free"
              THEN {[ok |-> FALSE, dom |-> d, slept |-> 500, clicked |-> FALSE]}
              ELSE {})

\* what load_buttons_script finds first: the control check_for_pagination
\* finds, or the "Next" link it does not
load_buttons(d) ==
    IF fix.kind # "free" /\ fix.pager = "link"
    THEN (IF d.screen < Len(fix.sizes) THEN "next" ELSE "none")
    ELSE check_for_pagination(d)

\* _apply_alternative_scroll_strategy(attempt_count): progressive scroll,
\* navigation keys, or a click on the first "load more" button found
apply_alternative_scroll_strategy(attempt_count, d) ==
    LET strategy == attempt_count % 15
        ctl == load_buttons(d)
    IN  IF strategy < 5
        THEN {[dom |-> d2, slept |-> 2000, more |-> 0] : d2 \in alt_scroll_effect(d)}
        ELSE IF strategy < 10
        THEN {[dom |-> d2, slept |-> 800, more |-> 0] : d2 \in alt_scroll_effect(d)}
        ELSE IF ctl = "none"
        THEN {[dom |-> d, slept |-> 0, more |-> 0]}
        ELSE {[dom |-> d2, slept |-> 1700, more |-> IF ctl = "more" THEN 1 ELSE 0]
                 : d2 \in click_effect(IF ctl = "next_disabled" THEN "noop" ELSE ctl, d)}

(***************************************************************************)
(* find_table_rows                                                         *)
(***************************************************************************)
\* rows the selector number i yields on the page
SelectorYield(i, d) == IF i \in fix.match THEN d.rendered ELSE 0

\* the selector cascade: the last non-empty result wins unless a selector
\* yields EarlyExitRows or more, which ends the cascade
RECURSIVE Cascade(_, _, _)
Cascade(i, all_rows, d) ==
    IF i > NumSelectors THEN all_rows
    ELSE IF SelectorYield(i, d) > 0
         THEN (IF SelectorYield(i, d) >= EarlyExitRows
               THEN SelectorYield(i, d)
               ELSE Cascade(i + 1, SelectorYield(i, d), d))
         ELSE Cascade(i + 1, all_rows, d)

\* number of rows a query of the page returns (cascade, then fallback scan)
Located(d) ==
    LET all_rows == Cascade(1, 0, d)
    IN  IF all_rows = 0
        THEN (IF fix.fallback THEN d.rendered ELSE 0)
        ELSE all_rows

\* find_table_rows(): the cached rows while the entry may be younger than
\* the TTL, or a query of the page that replaces the entry
find_table_rows(d, cache) ==
    (IF cache.has /\ cache.age < CacheTTL
     THEN {[rows |-> cache.rows, cache |-> cache, hit |-> TRUE]}
     ELSE {})
    \cup
    {[rows |-> Located(d),
      cache |-> [has |-> TRUE, rows |-> Located(d), screen |-> d.screen, age |-> 0],
      hit |-> FALSE]}

(***************************************************************************)
(* scroll_to_load_all_items                                                *)
(***************************************************************************)
\* coverage_percentage >= 95 (0 when total_expected <= 0)
Coverage95(current_rows_count, total) ==
    total > 0 /\ 100 * current_rows_count >= 95 * total

\* current_rows_count >= total_expected * 0.9
Coverage90(current_rows_count, total) ==
    10 * current_rows_count >= 9 * total

\* the stop criteria without the safety valve
should_finish_scrolling_novalve(ncc, current_rows_count, total) ==
    \/ ncc >= NoChangeThreshold /\ Coverage90(current_rows_count, total)
    \/ current_rows_count >= total
    \/ Coverage95(current_rows_count, total) /\ ncc >= HighCoverageStreak

\* the stop criteria without the excellent-coverage rule
should_finish_scrolling_no95(ncc, current_rows_count, total) ==
    \/ ncc >= NoChangeThreshold /\ Coverage90(current_rows_count, total)
    \/ ncc >= SafetyValveStreak
    \/ current_rows_count >= total

\* _should_finish_scrolling(no_change_count, current_rows_count, total_expected)
should_finish_scrolling(ncc, current_rows_count, total) ==
    \/ ncc >= NoChangeThreshold /\ Coverage90(current_rows_count, total)
    \/ ncc >= SafetyValveStreak
    \/ current_rows_count >= total
    \/ Coverage95(current_rows_count, total) /\ ncc >= HighCoverageStreak

\* _calculate_adaptive_wait_time, in milliseconds
calculate_adaptive_wait_time(ncc, current_rows_count) ==
    Min(200 + (IF ncc > 0 THEN Min(100 * ncc, 1000) ELSE 0)
            + Min(2 * current_rows_count, 500),
        1000)

NoLast == [cur |-> 0, ncc |-> 0, adv |-> FALSE, brk |-> FALSE, why |-> "none",
           hit |-> FALSE, seen |-> FALSE, mono |-> TRUE, best |-> 0,
           fault |-> "none"]

\* where a browser call can raise inside one loop iteration: in the scroll
\* action, in every query of find_table_rows, in the pagination click, in
\* the evaluation of the stop criteria, or at a place no helper guards
Faults == {"none", "scroll", "query", "click", "criteria", "unguarded"}

\* the faults the page can produce
PageFaults == IF fix.kind = "flaky" THEN Faults ELSE {"none"}

\* the scroll technique under a fault: its own handler logs and returns
\* False, the page is not scrolled
scroll_action(d, fault) == IF fault = "scroll" THEN {d} ELSE scroll_effect(d)

\* find_table_rows under a fault: every selector of the cascade and the
\* fallback scan raise and are caught one by one, the empty list is cached
\* and returned
locate_rows(d, cache, fault) ==
    IF fault = "query"
    THEN (IF cache.has /\ cache.age < CacheTTL
          THEN {[rows |-> cache.rows, cache |-> cache, hit |-> TRUE]}
          ELSE {})
         \cup
         {[rows |-> 0,
           cache |-> [has |-> TRUE, rows |-> 0, screen |-> d.screen, age |-> 0],
           hit |-> FALSE]}
    ELSE find_table_rows(d, cache)

\* _should_finish_scrolling under a fault: "except: return no_change_count > 15"
finish_scrolling(ncc, current_rows_count, total, fault) ==
    IF fault = "criteria" THEN ncc > 15
    ELSE should_finish_scrolling(ncc, current_rows_count, total)

NoStats == [next_calls |-> 0, next_ok |-> 0, more_clicks |-> 0]

\* The outcomes of the body of one loop iteration once the page was
\* scrolled to d1 and find_table_rows answered fr.
advance_due_ungated(pagination, n) == n >= PaginationStreak

\* "if has_pagination and no_change_count >= 5", line 1476
advance_due(pagination, n) == pagination /\ n >= PaginationStreak

IterOutcomes(d1, fr, fault) ==
    LET cur == fr.rows
        \* the history of the counts observed is kept on the fixture pages,
        \* not on the unconstrained one
        mono == fix.kind = "free" \/ (last.mono /\ (last.seen => cur >= last.cur))
        best == IF fix.kind = "free" THEN 0 ELSE Max(last.best, cur)
    IN
    IF cur = previous_rows_count
    THEN
      LET n == no_change_count + 1
          ctl == check_for_pagination(d1)
          tryClick == advance_due(has_pagination, n) /\ ctl # "none"
          clicks == IF tryClick /\ fault # "click"
                    THEN click_pagination_next(ctl, d1)
                    ELSE {[ok |-> FALSE, dom |-> d1, slept |-> 0, clicked |-> FALSE]}
      IN UNION {
           IF ck.ok
           THEN {[dom |-> ck.dom,
                  cache |-> Slept(fr.cache, ck.slept + 3000),
                  ncc |-> 0,
                  prev |-> previous_rows_count,
                  stats |-> [stats EXCEPT !.next_calls = @ + 1,
                                          !.next_ok = @ + 1,
                                          !.more_clicks = @ + (IF ctl = "more" THEN 1 ELSE 0)],
                  last |-> [cur |-> cur, ncc |-> n, adv |-> TRUE, brk |-> FALSE,
                            why |-> "none", hit |-> fr.hit, seen |-> TRUE,
                            mono |-> mono, best |-> best, fault |-> fault]]}
           ELSE
             LET alts == IF n >= AltStrategyStreak /\ n % 5 = 0
                         THEN apply_alternative_scroll_strategy(n, ck.dom)
                         ELSE {[dom |-> ck.dom, slept |-> 0, more |-> 0]}
                 fin == finish_scrolling(n, cur, total_expected, fault)
                 tot == ~fin /\ cur >= total_expected
             IN {[dom |-> a.dom,
                  cache |-> Slept(fr.cache,
                                  ck.slept + a.slept
                                  + (IF fin \/ tot THEN 0
                                     ELSE calculate_adaptive_wait_time(n, cur))),
                  ncc |-> n,
                  prev |-> IF fin THEN previous_rows_count ELSE cur,
                  stats |-> [stats EXCEPT !.next_calls = @ + (IF tryClick THEN 1 ELSE 0),
                                          !.more_clicks = @ + a.more],
                  last |-> [cur |-> cur, ncc |-> n, adv |-> FALSE,
                            brk |-> fin \/ tot,
                            why |-> IF fin THEN "criteria"
                                    ELSE IF tot THEN "total" ELSE "none",
                            hit |-> fr.hit, seen |-> TRUE, mono |-> mono,
                            best |-> best, fault |-> fault]]
                 : a \in alts}
         : ck \in clicks }
    ELSE
      {[dom |-> d1,
        cache |-> IF cur >= total_expected THEN fr.cache
                  ELSE Slept(fr.cache, calculate_adaptive_wait_time(0, cur)),
        ncc |-> 0,
        prev |-> cur,
        stats |-> stats,
        last |-> [cur |-> cur, ncc |-> 0, adv |-> FALSE,
                  brk |-> cur >= total_expected,
                  why |-> IF cur >= total_expected THEN "total" ELSE "none",
                  hit |-> fr.hit, seen |-> TRUE, mono |-> mono,
                  best |-> best, fault |-> fault]]}

\* the prelude of scroll_to_load_all_items, lines 1432-1447
ScrollStart ==
    /\ pc = "scroll_start"
    /\ previous_rows_count' = 0
    /\ no_change_count' = 0
    /\ table_type' = detect_table_type(fix.fp)
    /\ has_pagination' = (check_for_pagination(dom) # "none")
    /\ attempt' = 0
    /\ last' = NoLast
    /\ pc' = IF max_attempts > 0 THEN "scroll_loop" ELSE "scroll_end"
    /\ UNCHANGED <<fix, dom, element_cache, total_expected, max_attempts,
                   stats, hv, vd>>

\* a loop whose index does not advance
NextAttempt_stuck(a) == a

\* the next index of "for attempt in range(max_attempts)"
NextAttempt(a) == a + 1

\* a loop body without its except clause: the exception leaves the call
loop_handler_reraise(next_pc) == "raised"

\* "except Exception as e: logger.warning(...)" at the end of the loop
\* body: the exception is logged and the loop takes its next step
loop_handler(next_pc) == next_pc

\* the state an iteration leaves when the except clause of the loop body
\* ends it: nothing it had not yet assigned is changed
IterCaught ==
    [dom |-> dom, cache |-> element_cache, ncc |-> no_change_count,
     prev |-> previous_rows_count, stats |-> stats,
     last |-> [last EXCEPT !.adv = FALSE, !.brk = FALSE, !.why = "caught",
                           !.fault = "unguarded"]]

\* one iteration of the loop "for attempt in range(max_attempts)"
ScrollIter ==
    /\ pc = "scroll_loop"
    /\ \E fault \in PageFaults :
       \E d1 \in scroll_action(dom, fault) :
       \E fr \in locate_rows(d1, Slept(element_cache, ScrollSleep(table_type)), fault) :
       \E out \in (IF fault = "unguarded" THEN {IterCaught}
                   ELSE IterOutcomes(d1, fr, fault)) :
          /\ dom' = out.dom
          /\ element_cache' = out.cache
          /\ no_change_count' = out.ncc
          /\ previous_rows_count' = out.prev
          /\ stats' = out.stats
          /\ last' = out.last
          /\ attempt' = NextAttempt(attempt)
          /\ LET next_pc == IF out.last.brk \/ NextAttempt(attempt) >= max_attempts
                             THEN "scroll_end" ELSE "scroll_loop"
             IN  pc' = IF fault = "unguarded" THEN loop_handler(next_pc)
                       ELSE next_pc
    /\ UNCHANGED <<fix, table_type, has_pagination, total_expected,
                   max_attempts, hv, vd>>

\* lines 1511-1515: the value returned to the caller
ScrollReturn ==
    /\ pc = "scroll_end"
    /\ hv' = [hv EXCEPT !.loaded_rows_count = previous_rows_count,
                        !.scroll_calls = @ + 1]
    /\ pc' = IF hv.caller = "harvest" THEN "harvest_check" ELSE "returned"
    /\ UNCHANGED <<fix, dom, element_cache, table_type, has_pagination,
                   total_expected, max_attempts, attempt, previous_rows_count,
                   no_change_count, last, stats, vd>>


(***************************************************************************)
(* Strings: a string is the tuple of its characters                        *)
(***************************************************************************)
LowerCase == <<"a", "b", "c", "d", "e", "f", "g", "h", "i", "j", "k", "l", "m",
               "n", "o", "p", "q", "r", "s", "t", "u", "v", "w", "x", "y", "z">>

UpperCase == <<"A", "B", "C", "D", "E", "F", "G", "H", "I", "J", "K", "L", "M",
               "N", "O", "P", "Q", "R", "S", "T", "U", "V", "W", "X", "Y", "Z">>

\* the index of character c in the alphabet, 0 when it is not in it
IndexIn(alphabet, c) ==
    IF \E i \in 1..Len(alphabet) : alphabet[i] = c
    THEN CHOOSE i \in 1..Len(alphabet) : alphabet[i] = c
    ELSE 0

\* str.upper()
Upper(str) ==
    [i \in 1..Len(str) |->
        IF IndexIn(LowerCase, str[i]) > 0
        THEN UpperCase[IndexIn(LowerCase, str[i])] ELSE str[i]]

\* str.lower()
Lower(str) ==
    [i \in 1..Len(str) |->
        IF IndexIn(UpperCase, str[i]) > 0
        THEN LowerCase[IndexIn(UpperCase, str[i])] ELSE str[i]]

\* keyword in str
Contains(str, keyword) ==
    \E i \in 1..(Len(str) - Len(keyword) + 1) :
        SubSeq(str, i, i + Len(keyword) - 1) = keyword

status_keywords ==
    {<<"O", "P", "E", "N">>, <<"D", "O", "N", "E">>,
     <<"I", "N", " ", "P", "R", "O", "G", "R", "E", "S", "S">>,
     <<"R", "E", "A", "D", "Y">>,
     <<"A", "C", "C", "E", "P", "T", "E", "D">>,
     <<"D", "R", "A", "F", "T">>, <<"C", "L", "O", "S", "E", "D">>}

priority_keywords ==
    {<<"H", "I", "G", "H">>, <<"M", "E", "D", "I", "U", "M">>,
     <<"L", "O", "W">>, <<"V", "E", "R", "Y", " ", "H", "I", "G", "H">>}

date_keywords ==
    {<<"J", "A", "N">>, <<"F", "E", "B">>, <<"M", "A", "R">>, <<"A", "P", "R">>,
     <<"M", "A", "Y">>, <<"J", "U", "N">>, <<"J", "U", "L">>, <<"A", "U", "G">>,
     <<"S", "E", "P">>, <<"O", "C", "T">>, <<"N", "O", "V">>, <<"D", "E", "C">>}

\* any(keyword in value.upper() for keyword in keywords)
AnyKeyword(value, keywords) == \E k \in keywords : Contains(Upper(value), k)

(***************************************************************************)
(* The strings the records under test are made of                          *)
(***************************************************************************)
sEmpty == <<>>

sBug == <<"B", "u", "g">>

sOpen == <<"O", "P", "E", "N">>

sHigh == <<"H", "i", "g", "h">>

sDate == <<"3", " ", "J", "a", "n">>

sUser == <<"I", "5">>

Strings == {sEmpty, sBug, sOpen, sHigh, sDate, sUser}

sFix == <<"F", "i", "x", " ", "l", "o", "g", "i", "n", " ", "b", "u", "g">>

shigh == <<"h", "i", "g", "h">>

\* every string a field other than Title takes in some record of the model
FieldStrings == Strings \cup {sFix, shigh}

\* the strings of each shape, computed once
StatusLike == {v \in FieldStrings : AnyKeyword(v, status_keywords)}

PriorityLike == {v \in FieldStrings : AnyKeyword(v, priority_keywords)}

DateLike == {v \in FieldStrings : AnyKeyword(v, date_keywords)}

(***************************************************************************)
(* _validate_and_correct_issue_data                                        *)
(***************************************************************************)
required_fields == <<"Title", "Type", "Priority", "Status", "Deadline",
                     "Due Date", "Created By", "Created On">>

FieldNames == {required_fields[i] : i \in 1..Len(required_fields)}

date_fields == <<"Deadline", "Due Date", "Created On">>

Swap(r, a, b) == [r EXCEPT ![a] = r[b], ![b] = r[a]]

\* the first field of the list for which the loop body breaks, 0 if none
FirstField(fields, r, shape) ==
    IF \E i \in 1..Len(fields) : r[fields[i]] # sEmpty /\ r[fields[i]] \in shape
    THEN CHOOSE i \in 1..Len(fields) :
            /\ r[fields[i]] # sEmpty /\ r[fields[i]] \in shape
            /\ \A j \in 1..(i - 1) :
                  ~(r[fields[j]] # sEmpty /\ r[fields[j]] \in shape)
    ELSE 0

ClearDuplicateType_keep(r) == r

\* 1. Type must not duplicate Title
ClearDuplicateType(r) ==
    IF r["Type"] = r["Title"] THEN [r EXCEPT !["Type"] = sEmpty] ELSE r

\* 2. / 3. / 4.: a field that has not its shape takes the value of the first
\* of the other fields that has it
FixField(r, field, shape, others) ==
    IF r[field] # sEmpty /\ r[field] \notin shape
          /\ FirstField(others, r, shape) > 0
    THEN Swap(r, field, others[FirstField(others, r, shape)])
    ELSE r

FixStatus(r) == FixField(r, "Status", StatusLike, <<"Priority", "Type", "Deadline">>)

FixPriority(r) == FixField(r, "Priority", PriorityLike, <<"Type", "Status">>)

FixDate(r, date_field) ==
    FixField(r, date_field, DateLike, <<"Status", "Priority", "Type">>)

FixDates(r) == FixDate(FixDate(FixDate(r, "Deadline"), "Due Date"), "Created On")

\* 5. a date in Created By moves to the first empty date field
FixCreatedBy(r) ==
    IF r["Created By"] # sEmpty /\ r["Created By"] \in DateLike
          /\ \E i \in 1..Len(date_fields) : r[date_fields[i]] = sEmpty
    THEN LET i == CHOOSE k \in 1..Len(date_fields) :
                     /\ r[date_fields[k]] = sEmpty
                     /\ \A j \in 1..(k - 1) : r[date_fields[j]] # sEmpty
         IN  [r EXCEPT ![date_fields[i]] = r["Created By"],
                       !["Created By"] = sEmpty]
    ELSE r

\* the signature of a whole-row shift
ShiftSignature(r) ==
    /\ r["Type"] = r["Title"]
    /\ r["Priority"] = r["Type"]
    /\ r["Status"] = r["Priority"]

\* all fields after Title one position to the left
RotateLeft(r) ==
    [r EXCEPT !["Type"] = r["Priority"],
              !["Priority"] = r["Status"],
              !["Status"] = r["Deadline"],
              !["Deadline"] = r["Due Date"],
              !["Due Date"] = r["Created By"],
              !["Created By"] = r["Created On"],
              !["Created On"] = sEmpty]

\* 6. repair of a whole-row shift
FixShift(r) == IF ShiftSignature(r) THEN RotateLeft(r) ELSE r

validate_and_correct_issue_data(issue_data) ==
    FixShift(FixCreatedBy(FixDates(FixPriority(FixStatus(
        ClearDuplicateType(issue_data))))))

(***************************************************************************)
(* extract_issues_data                                                     *)
(***************************************************************************)
Digits == <<"0", "1", "2", "3", "4", "5", "6", "7", "8", "9">>

\* str(n)
RECURSIVE Decimal(_)
Decimal(n) ==
    IF n < 10 THEN <<Digits[n + 1]>>
    ELSE Decimal(n \div 10) \o <<Digits[(n % 10) + 1]>>

\* f"Issue sin titulo #{index+1}"
Placeholder(n) ==
    <<"I", "s", "s", "u", "e", " ", "s", "i", "n", " ",
      "t", "i", "t", "u", "l", "o", " ", "#">> \o Decimal(n)

RECURSIVE SumTo(_, _)
SumTo(sizes, k) == IF k = 0 THEN 0 ELSE sizes[k] + SumTo(sizes, k - 1)

\* the title row i of screen s shows
RowTitle(s, i) ==
    IF fix.distinct
    THEN <<"R">> \o Decimal(SumTo(fix.sizes, s - 1) + i)
    ELSE fix.titles[s][i]

\* what the field extractors read from row i of screen s
RowRecord(s, i) ==
    [f \in FieldNames |->
        CASE f = "Title" -> RowTitle(s, i)
          [] f = "Priority" -> sHigh
          [] f = "Status" -> sOpen
          [] f = "Deadline" -> sDate
          [] OTHER -> sEmpty]

\* _process_table_rows(rows, seen_titles, header_map): one validated record
\* per row; seen_titles is not used
process_table_rows(screen, n) ==
    [i \in 1..n |->
        LET raw == RowRecord(screen, i)
            issue_data == IF raw["Title"] = sEmpty
                          THEN [raw EXCEPT !["Title"] = Placeholder(i)]
                          ELSE raw
        IN  validate_and_correct_issue_data(issue_data)]

\* lines 1756-1760: the page's records validated once more
corrected_data(page_issues_data) ==
    [i \in 1..Len(page_issues_data) |->
        validate_and_correct_issue_data(page_issues_data[i])]

\* get_total_issues_count: the header counter, else an estimate from the
\* rows now found, floored at DefaultTotal
get_total_issues_count(counter, rows) ==
    IF counter >= 0 THEN counter
    ELSE IF rows > 0 THEN Max(rows, DefaultTotal) ELSE DefaultTotal

\* lines 1716-1728: up to the call of scroll_to_load_all_items
HarvestStart ==
    /\ pc = "harvest_start"
    /\ \E fr \in find_table_rows(dom, Slept(element_cache, 3000)) :
          /\ total_expected' = get_total_issues_count(fix.counter, fr.rows)
          /\ element_cache' = IF fix.counter >= 0
                              THEN Slept(element_cache, 3000) ELSE fr.cache
    /\ max_attempts' = DefaultMaxAttempts
    /\ hv' = [hv EXCEPT !.caller = "harvest"]
    /\ pc' = "scroll_start"
    /\ UNCHANGED <<fix, dom, table_type, has_pagination, attempt,
                   previous_rows_count, no_change_count, last, stats, vd>>

\* lines 1730-1739: after the scroll
HarvestCheck ==
    /\ pc = "harvest_check"
    /\ hv' = [hv EXCEPT !.pagination_elements = check_for_pagination(dom),
                        !.has_pagination = (check_for_pagination(dom) # "none"),
                        !.all_issues_data = <<>>,
                        !.page_num = 1]
    /\ pc' = "harvest_pages"
    /\ UNCHANGED <<fix, dom, element_cache, table_type, has_pagination,
                   total_expected, max_attempts, attempt, previous_rows_count,
                   no_change_count, last, stats, vd>>

\* a page loop that allows one page more
page_loop_continues_late(page_num) == page_num <= MaxPages + 1

\* "while page_num <= max_pages"
page_loop_continues(page_num) == page_num <= MaxPages

\* one round of "while page_num <= max_pages", lines 1741-1786
HarvestPage ==
    /\ pc = "harvest_pages"
    /\ \E fr \in find_table_rows(dom, element_cache) :
       LET page_issues_data == process_table_rows(fr.cache.screen, fr.rows)
           all == hv.all_issues_data \o corrected_data(page_issues_data)
           stop == \/ fr.rows = 0
                   \/ ~hv.has_pagination
                   \/ Len(page_issues_data) = 0
                   \/ hv.pagination_elements = "none"
       IN
       IF stop
       THEN /\ hv' = [hv EXCEPT !.all_issues_data = all, !.rounds = @ + 1]
            /\ pc' = "harvest_done"
            /\ element_cache' = fr.cache
            /\ UNCHANGED <<dom, stats>>
       ELSE \E ck \in click_pagination_next(hv.pagination_elements, dom) :
            /\ stats' = [stats EXCEPT
                            !.next_calls = @ + 1,
                            !.next_ok = @ + (IF ck.ok THEN 1 ELSE 0),
                            !.more_clicks = @ + (IF ck.ok /\ hv.pagination_elements = "more"
                                                 THEN 1 ELSE 0)]
            /\ dom' = ck.dom
            /\ IF ck.ok
               THEN /\ element_cache' = Slept(fr.cache, ck.slept + 3000)
                    /\ hv' = [hv EXCEPT !.all_issues_data = all,
                                        !.pagination_elements = check_for_pagination(ck.dom),
                                        !.page_num = @ + 1,
                                        !.rounds = @ + 1]
                    /\ pc' = IF page_loop_continues(hv.page_num + 1)
                             THEN "harvest_pages" ELSE "harvest_done"
               ELSE /\ element_cache' = Slept(fr.cache, ck.slept)
                    /\ hv' = [hv EXCEPT !.all_issues_data = all, !.rounds = @ + 1]
                    /\ pc' = "harvest_done"
    /\ UNCHANGED <<fix, table_type, has_pagination, total_expected,
                   max_attempts, attempt, previous_rows_count,
                   no_change_count, last, vd>>

NextHarvest ==
    \/ HarvestStart
    \/ ScrollStart
    \/ ScrollIter
    \/ ScrollReturn
    \/ HarvestCheck
    \/ HarvestPage

\* no two records of the sequence have the same title, letter case aside
NoDuplicateTitles(records) ==
    \A i, j \in 1..Len(records) :
        i < j => Lower(records[i]["Title"]) # Lower(records[j]["Title"])

(***************************************************************************)
(* Initial states                                                          *)
(***************************************************************************)
TableFingerprints ==
    {[standard_ui5 |-> 1, responsive_table |-> 1, grid_table |-> 0],
     [standard_ui5 |-> 0, responsive_table |-> 2, grid_table |-> 1],
     [standard_ui5 |-> 0, responsive_table |-> 0, grid_table |-> 1],
     [standard_ui5 |-> 0, responsive_table |-> 0, grid_table |-> 0]}

NoHarvest == [caller |-> "loadAll", loaded_rows_count |-> -1,
              has_pagination |-> FALSE, pagination_elements |-> "none",
              page_num |-> 0, all_issues_data |-> <<>>,
              scroll_calls |-> 0, rounds |-> 0]

NoValidation == [state |-> "unused"]

\* the unconstrained page
FreeFixtures ==
    {[kind |-> "free", sizes |-> <<MaxRows>>, pager |-> pg, lastCtl |-> "absent",
      step |-> 0, batch |-> 0, fp |-> fp, match |-> {1}, fallback |-> FALSE,
      counter |-> -1, distinct |-> TRUE, titles |-> <<>>]
        : pg \in {"none", "next"},
          fp \in {f \in TableFingerprints : f.grid_table = 0}}

\* a direct call scroll_to_load_all_items(total_expected, max_attempts) on
\* the unconstrained page
Init ==
    /\ fix \in FreeFixtures
    /\ dom = [screen |-> 1, rendered |-> 0, limit |-> MaxRows]
    /\ element_cache = EmptyCache
    /\ pc = "scroll_start"
    /\ table_type = "unknown"
    /\ has_pagination = FALSE
    /\ total_expected \in {0, ExpectedFree}
    /\ max_attempts = MaxAttemptsFree
    /\ attempt = 0
    /\ previous_rows_count = 0
    /\ no_change_count = 0
    /\ last = NoLast
    /\ stats = NoStats
    /\ hv = NoHarvest
    /\ vd = NoValidation

Next ==
    \/ ScrollStart
    \/ ScrollIter
    \/ ScrollReturn

Spec == Init /\ [][Next]_vars


(***************************************************************************)
(* Properties of the scroll driver                                         *)
(***************************************************************************)
\* the loop of scroll_to_load_all_items has been left
Left == pc \in {"scroll_end", "returned", "harvest_check", "harvest_pages",
                "harvest_done"}

Stop4(cur, ncc, att) ==
    \/ cur >= total_expected
    \/ ncc >= NoChangeThreshold /\ Coverage90(cur, total_expected)
    \/ ncc >= SafetyValveStreak
    \/ att >= max_attempts

\* the stop conditions of the code: the four, and excellent coverage
Stop5(cur, ncc, att) ==
    \/ Stop4(cur, ncc, att)
    \/ ncc >= HighCoverageStreak /\ Coverage95(cur, total_expected)

\* C2 as stated: the loop is left at an iteration if and only if one of the
\* four stop conditions holds at that iteration.
C2_Original == last.seen => (Left <=> Stop4(last.cur, last.ncc, attempt))

\* C2 amended: the loop is left only if one of the four conditions or the
\* fifth one (streak >= 5 and coverage >= 95%) holds, and an iteration where
\* one of them holds leaves the loop unless a pagination advance succeeded
\* in it.
C2_StopPolicy ==
    last.seen =>
        /\ Left => Stop5(last.cur, last.ncc, attempt)
        /\ (Stop5(last.cur, last.ncc, attempt) /\ ~last.adv) => Left

\* the loop was left on the fifth condition alone
C2_Witness ==
    /\ Left
    /\ last.seen
    /\ last.brk
    /\ ~Stop4(last.cur, last.ncc, attempt)


(***************************************************************************)
(* The validator on its own: validate(r) and validate(validate(r))         *)
(***************************************************************************)
\* the RawRecord with the given field values
RawRecord(ti, ty, pr, st, dl, dd, cb, co) ==
    [f \in FieldNames |->
        CASE f = "Title" -> ti [] f = "Type" -> ty [] f = "Priority" -> pr
          [] f = "Status" -> st [] f = "Deadline" -> dl [] f = "Due Date" -> dd
          [] f = "Created By" -> cb [] OTHER -> co]

IdleScroll ==
    /\ fix = [kind |-> "none"]
    /\ dom = [screen |-> 1, rendered |-> 0, limit |-> 0]
    /\ element_cache = EmptyCache
    /\ table_type = "unknown"
    /\ has_pagination = FALSE
    /\ total_expected = 0
    /\ max_attempts = 0
    /\ attempt = 0
    /\ previous_rows_count = 0
    /\ no_change_count = 0
    /\ last = NoLast
    /\ stats = NoStats
    /\ hv = NoHarvest

InitValidate ==
    /\ IdleScroll
    /\ pc = "validate"
    /\ \E ti \in {sEmpty, sBug, sOpen, sDate}, ty \in Strings, pr \in Strings,
          st \in Strings, dl \in Strings, dd \in {sEmpty, sDate, sBug},
          cb \in {sEmpty, sUser, sDate}, co \in {sEmpty, sDate, sUser} :
          LET r == RawRecord(ti, ty, pr, st, dl, dd, cb, co)
          IN  vd = [state |-> "raw", input |-> r, once |-> r, twice |-> r]

\* corrected = self._validate_and_correct_issue_data(issue)
Validate ==
    /\ pc = "validate"
    /\ vd.state = "raw"
    /\ vd' = [vd EXCEPT !.state = "once",
                        !.once = validate_and_correct_issue_data(vd.input),
                        !.twice = validate_and_correct_issue_data(vd.input)]
    /\ UNCHANGED <<fix, dom, element_cache, pc, table_type, has_pagination,
                   total_expected, max_attempts, attempt, previous_rows_count,
                   no_change_count, last, stats, hv>>

\* the validator run again on its own result (extract_issues_data, 1756-1760)
ValidateAgain ==
    /\ pc = "validate"
    /\ vd.state = "once"
    /\ vd' = [vd EXCEPT !.state = "twice",
                        !.twice = validate_and_correct_issue_data(vd.once)]
    /\ UNCHANGED <<fix, dom, element_cache, pc, table_type, has_pagination,
                   total_expected, max_attempts, attempt, previous_rows_count,
                   no_change_count, last, stats, hv>>

NextValidate ==
    \/ Validate
    \/ ValidateAgain

SpecValidate == InitValidate /\ [][NextValidate]_vars

\* C4: validate is idempotent: a second run on the result of the first
\* changes nothing.
C4_Idempotent == vd.state = "twice" => vd.twice = vd.once

\* the record whose one-column shift to the right is r
Unshift(r) == RotateLeft(r)

\* v shifted one column to the right: every field takes the value of the
\* field before it, Type the Title
RotateRight(v) ==
    [v EXCEPT !["Type"] = v["Title"],
              !["Priority"] = v["Type"],
              !["Status"] = v["Priority"],
              !["Deadline"] = v["Status"],
              !["Due Date"] = v["Deadline"],
              !["Created By"] = v["Due Date"],
              !["Created On"] = v["Created By"]]

\* a valid Record: a title, a type that is not the title, every other field
\* empty or of its shape, nothing left to correct
ValidRecord(v) ==
    /\ v["Title"] # sEmpty
    /\ v["Type"] # v["Title"]
    /\ v["Type"] \notin (StatusLike \cup PriorityLike \cup DateLike)
    /\ v["Priority"] = sEmpty \/ v["Priority"] \in PriorityLike
    /\ v["Status"] = sEmpty \/ v["Status"] \in StatusLike
    /\ \A i \in 1..Len(date_fields) :
          v[date_fields[i]] = sEmpty \/ v[date_fields[i]] \in DateLike
    /\ v["Created By"] \notin DateLike
    /\ v["Created On"] = sEmpty
    /\ validate_and_correct_issue_data(v) = v

\* the input is a valid Record shifted one column to the right
IsShifted(r) == ValidRecord(Unshift(r)) /\ RotateRight(Unshift(r)) = r

\* C5: validate restores a valid Record that was shifted one column right.
C5_ShiftRepair ==
    (vd.state # "raw" /\ IsShifted(vd.input)) => vd.once = Unshift(vd.input)

\* C6: a record with the shift signature comes out rotated one position
\* left.
C6_RotateOnSignature ==
    (vd.state # "raw" /\ ShiftSignature(vd.input)) => vd.once = RotateLeft(vd.input)


(***************************************************************************)
(* Fixtures and the specifications of whole harvests and scroll passes     *)
(***************************************************************************)
fpUnknown == [standard_ui5 |-> 0, responsive_table |-> 0, grid_table |-> 0]

fpStandard == [standard_ui5 |-> 1, responsive_table |-> 1, grid_table |-> 0]

\* the state before the engine acts on fixture f, shown with its first r
\* rows rendered and growing up to lim rows without a click
Start(f, r, lim) ==
    /\ fix = f
    /\ dom = [screen |-> 1, rendered |-> r, limit |-> lim]
    /\ element_cache = EmptyCache
    /\ table_type = "unknown"
    /\ has_pagination = FALSE
    /\ attempt = 0
    /\ previous_rows_count = 0
    /\ no_change_count = 0
    /\ last = NoLast
    /\ stats = NoStats
    /\ hv = NoHarvest
    /\ vd = NoValidation

\* pages of a few rows whose titles may differ in letter case only
sbug == <<"b", "u", "g">>

TitleChoices == {sBug, sbug, sUser}

SmallTitles ==
    {<<<<a, b>>>> : a \in TitleChoices, b \in TitleChoices}
    \cup {<<<<a>>, <<b>>>> : a \in TitleChoices, b \in TitleChoices}

SmallFixtures ==
    {[kind |-> "det", sizes |-> [k \in 1..Len(t) |-> Len(t[k])],
      pager |-> pg, lastCtl |-> "disabled", step |-> 0, batch |-> 0,
      fp |-> fpUnknown, match |-> {1}, fallback |-> FALSE,
      counter |-> c, distinct |-> FALSE, titles |-> t]
        : t \in SmallTitles, pg \in {"none", "next", "inert"}, c \in {-1, 1, 2}}

\* a harvest of a small page
InitHarvest ==
    /\ \E f \in SmallFixtures :
          /\ (f.pager = "next") <=> (Len(f.sizes) = 2)
          /\ Start(f, f.sizes[1], f.sizes[1])
    /\ pc = "harvest_start"
    /\ total_expected = 0
    /\ max_attempts = 0

SpecHarvest == InitHarvest /\ [][NextHarvest]_vars

\* C3: the sequence a harvest returns has no two records whose titles are
\* equal when compared case-insensitively.
C3_NoDuplicateTitles ==
    pc = "harvest_done" => NoDuplicateTitles(hv.all_issues_data)

\* Scenario B: three paginated screens of 40, 40 and 20 rows, all titles
\* distinct; the pager's control on the last screen is disabled or absent
FixturesB ==
    {[kind |-> "det", sizes |-> <<40, 40, 20>>, pager |-> "next",
      lastCtl |-> lc, step |-> 0, batch |-> 0, fp |-> fp, match |-> {1},
      fallback |-> FALSE, counter |-> c, distinct |-> TRUE, titles |-> <<>>]
        : lc \in {"disabled", "absent"}, fp \in {fpUnknown, fpStandard},
          c \in {-1, 100}}

InitB ==
    /\ \E f \in FixturesB : Start(f, 40, 40)
    /\ pc = "harvest_start"
    /\ total_expected = 0
    /\ max_attempts = 0

SpecB == InitB /\ [][NextHarvest]_vars

\* C7: on scenario B the harvest returns 100 unique records and the
\* pagination advance is invoked exactly twice.
C7_ScenarioB ==
    pc = "harvest_done" =>
        /\ Len(hv.all_issues_data) = 100
        /\ NoDuplicateTitles(hv.all_issues_data)
        /\ stats.next_ok = 2


\* Scenario A: 120 rows with distinct titles in one growing list, no pager;
\* the header shows the counter 120 or no counter; scrolling renders the
\* rows of the current batch; a "show more" button appears once the 50 rows
\* of the first batch are rendered (and again after every further batch of
\* 50) and is gone once all rows are loaded
FixturesA ==
    {[kind |-> "det", sizes |-> <<120>>, pager |-> "more",
      lastCtl |-> "absent", step |-> st, batch |-> 50, fp |-> fp,
      match |-> {1}, fallback |-> FALSE, counter |-> c, distinct |-> TRUE,
      titles |-> <<>>]
        : st \in {10, 30}, fp \in {fpUnknown, fpStandard}, c \in {-1, 120}}

InitA ==
    /\ \E f \in FixturesA : \E r \in {20, 50} : Start(f, r, 50)
    /\ pc = "harvest_start"
    /\ total_expected = 0
    /\ max_attempts = 0

SpecA == InitA /\ [][NextHarvest]_vars

\* C8: on scenario A the harvest returns 120 unique records and "show more"
\* was clicked at least once before the scroll loop was left.
C8_ScenarioA ==
    /\ Left => stats.more_clicks >= 1
    /\ pc = "harvest_done" =>
          /\ Len(hv.all_issues_data) = 120
          /\ NoDuplicateTitles(hv.all_issues_data)


\* A page without pagination whose R rows render a few more at each scroll
FixturesMono ==
    {[kind |-> "det", sizes |-> <<R>>, pager |-> "none", lastCtl |-> "absent",
      step |-> st, batch |-> 0, fp |-> fp, match |-> {1}, fallback |-> FALSE,
      counter |-> -1, distinct |-> TRUE, titles |-> <<>>]
        : R \in {ExpectedFree, ExpectedFree - MonoShort}, st \in {1, 7},
          fp \in {fpUnknown, fpStandard}}

\* scroll_to_load_all_items(ExpectedFree) on such a page
InitMono ==
    /\ \E f \in FixturesMono : Start(f, 0, f.sizes[1])
    /\ pc = "scroll_start"
    /\ total_expected = ExpectedFree
    /\ max_attempts = DefaultMaxAttempts

SpecMono == InitMono /\ [][Next]_vars

\* C9: on a page whose row count grows with each scroll up to R, the counts
\* the loop observes never decrease and the value returned is R.
C9_ConvergesToR ==
    /\ last.mono
    /\ pc = "returned" => hv.loaded_rows_count = fix.sizes[1]

\* Scenario D: no row is ever found, because the page has none or because
\* no selector (nor the fallback scan) matches the rows it has; the page may
\* carry a pager or a control the pagination selectors match
FixturesD ==
    {[kind |-> "det", sizes |-> sz, pager |-> pg, lastCtl |-> "disabled",
      step |-> 0, batch |-> 0, fp |-> fp, match |-> m, fallback |-> FALSE,
      counter |-> -1, distinct |-> TRUE, titles |-> <<>>]
        : sz \in {<<0>>, <<0, 0>>, <<3>>}, pg \in {"none", "next", "inert"},
          m \in {{}, {1}}, fp \in {fpUnknown, fpStandard}}

\* scroll_to_load_all_items(ExpectedFree, max_attempts) on such a page
InitD ==
    /\ \E f \in FixturesD :
          /\ (f.sizes = <<3>>) <=> (f.match = {})
          /\ (f.pager = "next") <=> (Len(f.sizes) = 2)
          /\ Start(f, f.sizes[1], f.sizes[1])
    /\ pc = "scroll_start"
    /\ total_expected = ExpectedFree
    /\ max_attempts \in {ShortAttempts, DefaultMaxAttempts}

SpecD == InitD /\ [][Next]_vars

\* C10 as stated: with no row ever found the scroll driver returns 0 and
\* leaves its loop on the streak of 20, not by running out of attempts.
C10_Original ==
    pc = "returned" =>
        /\ hv.loaded_rows_count = 0
        /\ last.brk /\ last.ncc >= SafetyValveStreak

\* C10 amended: with no row ever found every query returns no row and the
\* scroll driver returns 0; it leaves its loop on the streak of 20 when
\* max_attempts is at least 20 and no pagination advance succeeded, and
\* otherwise it leaves it on the streak of 20 or by running out of attempts.
C10_EmptyPage ==
    /\ last.cur = 0 /\ element_cache.rows = 0
    /\ pc = "returned" =>
          /\ hv.loaded_rows_count = 0
          /\ (stats.next_ok = 0 /\ max_attempts >= SafetyValveStreak) =>
                (last.brk /\ last.ncc = SafetyValveStreak
                          /\ attempt = SafetyValveStreak)
          /\ \/ last.brk /\ last.ncc = SafetyValveStreak
             \/ ~last.brk /\ attempt = max_attempts

C10_Witness ==
    /\ pc = "returned"
    /\ fix.match = {}
    /\ dom.rendered > 0
    /\ stats.next_ok = 0
    /\ last.brk
    /\ last.ncc = SafetyValveStreak


\* Pages whose browser calls may raise: one screen of 3 rows, or a screen of
\* 4 rows followed through a pager by a screen of 2 rows
FixturesFlaky ==
    {[kind |-> "flaky", sizes |-> sz, pager |-> pg, lastCtl |-> "disabled",
      step |-> 0, batch |-> 0, fp |-> fpUnknown, match |-> {1},
      fallback |-> FALSE, counter |-> -1, distinct |-> TRUE, titles |-> <<>>]
        : sz \in {<<3>>, <<4, 2>>}, pg \in {"none", "next"}}

\* scroll_to_load_all_items(ExpectedFree, MaxAttemptsFree) on such a page
InitFlaky ==
    /\ \E f \in FixturesFlaky :
          /\ (f.pager = "next") <=> (Len(f.sizes) = 2)
          /\ Start(f, f.sizes[1], f.sizes[1])
    /\ pc = "scroll_start"
    /\ total_expected = ExpectedFree
    /\ max_attempts = MaxAttemptsFree

SpecFlaky == InitFlaky /\ [][Next]_vars

\* C11: the value scroll_to_load_all_items returns is the largest row count
\* observed in any iteration of the call.
C11_ReturnsBest ==
    pc = "returned" => hv.loaded_rows_count = last.best

\* the scroll loop takes its next step: another iteration, or the end of
\* the loop when the attempts are used up
LoopGoesOn == pc' = "scroll_loop" \/ attempt' >= max_attempts

\* the iteration ends the loop on one of the stop criteria
GenuineStop ==
    \/ should_finish_scrolling(last'.ncc, last'.cur, total_expected)
    \/ last'.cur >= total_expected

\* C18 as stated: an exception raised by a scroll action, a row query, a
\* pagination click or the stop-criteria evaluation never leaves
\* scroll_to_load_all_items, and the iteration it happens in is followed by
\* the next iteration unless a stop criterion holds in it.
C18_Original ==
    /\ [](pc # "raised")
    /\ [][(pc = "scroll_loop" /\ last'.fault # "none")
              => (LoopGoesOn \/ GenuineStop)]_vars

\* C18 amended: no such exception leaves scroll_to_load_all_items, which
\* returns previous_rows_count; the iteration it happens in is followed by
\* the next iteration unless a stop criterion holds in it or the exception
\* was raised by the stop-criteria evaluation with a streak above 15, which
\* ends the loop.
C18_FaultsContained ==
    /\ [](pc # "raised")
    /\ [](pc = "returned" => hv.loaded_rows_count = previous_rows_count)
    /\ [][(pc = "scroll_loop" /\ last'.fault # "none")
              => \/ LoopGoesOn
                 \/ GenuineStop
                 \/ last'.fault = "criteria" /\ last'.ncc > 15]_vars
    /\ [][(pc = "scroll_loop" /\ last'.fault = "unguarded")
              => /\ LoopGoesOn
                 /\ previous_rows_count' = previous_rows_count
                 /\ attempt' = attempt + 1]_vars

\* the loop was ended by the fallback of a failed stop-criteria evaluation,
\* after an iteration that was ended by the except clause of the loop body
C18_Witness ==
    /\ pc = "returned"
    /\ last.fault = "criteria"
    /\ last.brk
    /\ last.ncc = 16
    /\ attempt < max_attempts
    /\ fix.kind = "flaky"

\* C12: every locate/extract round of the harvest is preceded by its own
\* call of scroll_to_load_all_items: after a pagination advance the rows of
\* the new page are scrolled into view before they are located.
C12_RescrollsEachPage ==
    hv.caller = "harvest" => hv.rounds <= hv.scroll_calls

\* C19: the page loop of extract_issues_data makes at most MaxPages
\* locate/extract rounds, also on a pager whose advance always succeeds, and
\* then returns the records of all its rounds.
C19_AtMostMaxPages ==
    /\ hv.rounds <= MaxPages
    /\ pc = "harvest_pages" => hv.rounds < MaxPages /\ hv.page_num = hv.rounds + 1
    /\ (pc = "harvest_done" /\ stats.next_ok >= MaxPages) =>
          /\ hv.rounds = MaxPages
          /\ Len(hv.all_issues_data) >= MaxPages

\* the pager advanced after every one of the 20 rounds
C19_Witness ==
    /\ pc = "harvest_done"
    /\ hv.rounds = MaxPages
    /\ hv.page_num = MaxPages + 1
    /\ fix.pager = "inert"
    /\ Len(hv.all_issues_data) = MaxPages * fix.sizes[1]

(***************************************************************************)
(* _normalize_status and _normalize_priority                               *)
(***************************************************************************)
\* the strings the normalizers compare and return
kOPEN == <<"O", "P", "E", "N">>

kDONE == <<"D", "O", "N", "E">>

kIN_PROGRESS == <<"I", "N", " ", "P", "R", "O", "G", "R", "E", "S", "S">>

kREADY == <<"R", "E", "A", "D", "Y">>

kREADY_FOR_PUBLISHING == <<"R", "E", "A", "D", "Y", " ", "F", "O", "R", " ", "P", "U", "B", "L", "I", "S", "H", "I", "N", "G">>

kACCEPTED == <<"A", "C", "C", "E", "P", "T", "E", "D">>

kDRAFT == <<"D", "R", "A", "F", "T">>

kCLOSED == <<"C", "L", "O", "S", "E", "D">>

kPUBLISH == <<"P", "U", "B", "L", "I", "S", "H">>

kPUBLISHING == <<"P", "U", "B", "L", "I", "S", "H", "I", "N", "G">>

kCOMPLETED == <<"C", "O", "M", "P", "L", "E", "T", "E", "D">>

kPROCESSING == <<"P", "R", "O", "C", "E", "S", "S", "I", "N", "G">>

kNA == <<"N", "/", "A">>

\* the keywords of the status vocabulary
StatusKeywords == {kOPEN, kDONE, kIN_PROGRESS, kREADY, kACCEPTED, kDRAFT, kCLOSED}

\* the closed vocabulary of Status
StatusVocabulary ==
    {kOPEN, kDONE, kIN_PROGRESS, kREADY, kREADY_FOR_PUBLISHING, kDRAFT,
     kCLOSED, kACCEPTED}

\* _normalize_status of Extractor_V16.py
normalize_status_V16(status_text) ==
    LET status_upper == Upper(status_text)
    IN  IF status_text = sEmpty THEN kNA
        ELSE IF Contains(status_upper, kDONE) \/ Contains(status_upper, kCOMPLETED)
             THEN kDONE
        ELSE IF Contains(status_upper, kOPEN) THEN kOPEN
        ELSE IF Contains(status_upper, kIN_PROGRESS)
                  \/ Contains(status_upper, kPROCESSING)
             THEN kIN_PROGRESS
        ELSE IF Contains(status_upper, kREADY) /\ Contains(status_upper, kPUBLISHING)
             THEN kREADY_FOR_PUBLISHING
        ELSE IF Contains(status_upper, kREADY) THEN kREADY
        ELSE IF Contains(status_upper, kDRAFT) THEN kDRAFT
        ELSE IF Contains(status_upper, kCLOSED) THEN kCLOSED
        ELSE IF Contains(status_upper, kACCEPTED) THEN kACCEPTED
        ELSE status_text

\* _normalize_status of Extractor_V18.py
normalize_status(status_text) ==
    LET status_upper == Upper(status_text)
    IN  IF status_text = sEmpty THEN sEmpty
        ELSE IF Contains(status_upper, kOPEN) THEN kOPEN
        ELSE IF Contains(status_upper, kDONE) THEN kDONE
        ELSE IF Contains(status_upper, kIN_PROGRESS) THEN kIN_PROGRESS
        ELSE IF Contains(status_upper, kREADY)
             THEN (IF Contains(status_upper, kPUBLISH)
                   THEN kREADY_FOR_PUBLISHING ELSE kREADY)
        ELSE IF Contains(status_upper, kACCEPTED) THEN kACCEPTED
        ELSE IF Contains(status_upper, kDRAFT) THEN kDRAFT
        ELSE IF Contains(status_upper, kCLOSED) THEN kCLOSED
        ELSE status_text

\* the status texts the normalizers are run on: a core text, in its own,
\* upper and lower case, alone or inside a longer text
StatusCores ==
    {<<"O", "p", "e", "n">>,
     <<"D", "o", "n", "e">>,
     <<"I", "n", " ", "P", "r", "o", "g", "r", "e", "s", "s">>,
     <<"R", "e", "a", "d", "y">>,
     <<"R", "e", "a", "d", "y", " ", "f", "o", "r", " ", "P", "u", "b", "l", "i", "s", "h", "i", "n", "g">>,
     <<"A", "c", "c", "e", "p", "t", "e", "d">>,
     <<"D", "r", "a", "f", "t">>,
     <<"C", "l", "o", "s", "e", "d">>,
     <<"C", "o", "m", "p", "l", "e", "t", "e", "d">>,
     <<"P", "r", "o", "c", "e", "s", "s", "i", "n", "g">>,
     <<"B", "l", "o", "c", "k", "e", "d">>,
     <<"N", "/", "A">>,
     <<>>,
     <<"R", "e", "o", "p", "e", "n", "e", "d">>,
     <<"O", "p", "e", "n", " ", "a", "n", "d", " ", "c", "l", "o", "s", "e", "d">>,
     <<"P", "r", "o", "g", "r", "e", "s", "s">>}

StatusTexts ==
    {pre \o c \o suf :
        pre \in {<<>>, <<"x", " ">>}, suf \in {<<>>, <<" ", "!">>},
        c \in StatusCores \cup {Upper(k) : k \in StatusCores}
                          \cup {Lower(k) : k \in StatusCores}}

InitNormalize ==
    /\ IdleScroll
    /\ pc = "normalize"
    /\ \E t \in StatusTexts : vd = [state |-> "text", input |-> t]

\* status = self._normalize_status(status), in either version of the script
NormalizeStatus ==
    /\ pc = "normalize"
    /\ vd.state = "text"
    /\ vd' = [state |-> "normalized", input |-> vd.input,
              V18 |-> normalize_status(vd.input),
              V16 |-> normalize_status_V16(vd.input)]
    /\ UNCHANGED <<fix, dom, element_cache, pc, table_type, has_pagination,
                   total_expected, max_attempts, attempt, previous_rows_count,
                   no_change_count, last, stats, hv>>

SpecNormalize == InitNormalize /\ [][NormalizeStatus]_vars

\* the text contains one of the seven keywords, in any letter case
HasStatusKeyword(text) == \E k \in StatusKeywords : Contains(Upper(text), k)

\* the claim of C15 about one result of _normalize_status
NormalizedAsClaimed(text, out) ==
    IF HasStatusKeyword(text) THEN out \in StatusVocabulary ELSE out = text

\* C15: _normalize_status, in each version of the script that has it,
\* returns a value of the closed vocabulary for every text that contains one
\* of the seven keywords in any letter case, and returns every other text
\* unchanged.
C15_StatusVocabulary ==
    vd.state = "normalized" =>
        /\ NormalizedAsClaimed(vd.input, vd.V18)
        /\ NormalizedAsClaimed(vd.input, vd.V16)

(***************************************************************************)
(* Extraction of one row: _get_row_cells, _extract_by_headers, the field   *)
(* extractors and the body of the loop of _process_table_rows.             *)
(*                                                                         *)
(* A row is its eight cells, left to right, each with its visible text     *)
(* (WebElement.text, which has no leading or trailing white space).  A     *)
(* "plain" row is a tr of td cells, whose text shows the cells on one line;*)
(* a "labelled" row is a div of gridcell divs that carry the column name   *)
(* in aria-label, one cell per line.  The rows have no links, no title,    *)
(* type, gauge or label elements, and their texts have no line break, no   *)
(* "/", no "-", no "day," and none of the field names, so that the         *)
(* searches by date format and by label of the date extractors find        *)
(* nothing.                                                                *)
(***************************************************************************)
\* the priority vocabulary
pVeryHigh == <<"V", "e", "r", "y", " ", "H", "i", "g", "h">>

pHigh == <<"H", "i", "g", "h">>

pMedium == <<"M", "e", "d", "i", "u", "m">>

pLow == <<"L", "o", "w">>

PriorityVocabulary == {pVeryHigh, pHigh, pMedium, pLow}

\* _normalize_priority
normalize_priority(priority_text) ==
    LET priority_lower == Lower(priority_text)
    IN  IF priority_text = sEmpty THEN sEmpty
        ELSE IF Contains(priority_lower, Lower(pVeryHigh)) THEN pVeryHigh
        ELSE IF Contains(priority_lower, Lower(pHigh)) THEN pHigh
        ELSE IF Contains(priority_lower, Lower(pMedium)) THEN pMedium
        ELSE IF Contains(priority_lower, Lower(pLow)) THEN pLow
        ELSE priority_text

\* the month names the date extractors look for, letter case included
month_names ==
    {<<"J", "a", "n">>, <<"F", "e", "b">>, <<"M", "a", "r">>, <<"A", "p", "r">>,
     <<"M", "a", "y">>, <<"J", "u", "n">>, <<"J", "u", "l">>, <<"A", "u", "g">>,
     <<"S", "e", "p">>, <<"O", "c", "t">>, <<"N", "o", "v">>, <<"D", "e", "c">>}

HasMonth(text) == \E m \in month_names : Contains(text, m)

\* the cells that have text
NonEmptyCells(cells) == SelectSeq(cells, LAMBDA c : c # sEmpty)

\* _get_row_cells: the td or gridcell elements when the first three have
\* text; else the cells found column by column through aria-label; else
\* every element of the row that has text, when there are four or more
get_row_cells(row) ==
    IF Len(row.cells) > 2 /\ \A i \in 1..3 : row.cells[i] # sEmpty
    THEN row.cells
    ELSE IF row.kind = "labelled" THEN row.cells
    ELSE IF Len(NonEmptyCells(row.cells)) >= 4 THEN NonEmptyCells(row.cells)
    ELSE <<>>

\* " ".join(texts)
RECURSIVE JoinCells(_)
JoinCells(texts) ==
    IF Len(texts) = 0 THEN <<>>
    ELSE IF Len(texts) = 1 THEN texts[1]
    ELSE texts[1] \o <<" ">> \o JoinCells(Tail(texts))

\* row.text.strip().split('\n')[0]
FirstLine(row) ==
    LET texts == NonEmptyCells(row.cells)
    IN  IF Len(texts) = 0 THEN <<>>
        ELSE IF row.kind = "plain" THEN JoinCells(texts)
        ELSE texts[1]

\* _extract_title: the text of the first cell, else the first line of the
\* row's text; the empty string stands for None
extract_title(row) ==
    IF row.cells[1] # sEmpty THEN row.cells[1] ELSE FirstLine(row)

\* _extract_type
extract_type(row, title) ==
    LET cells == get_row_cells(row)
    IN  IF Len(cells) >= 2 /\ cells[2] # sEmpty /\ cells[2] # title
        THEN cells[2] ELSE sEmpty

\* _extract_priority: the third cell normalized; the searches that follow
\* pass a (by, value) pair as one argument, raise and give ""
extract_priority(row) ==
    LET cells == get_row_cells(row)
    IN  IF Len(cells) >= 3 /\ cells[3] # sEmpty
        THEN normalize_priority(cells[3]) ELSE sEmpty

\* the status names _extract_status searches the row for, in order
status_patterns == <<kOPEN, kDONE, kIN_PROGRESS, kREADY, kACCEPTED, kDRAFT>>

\* _extract_status: the fourth cell normalized, else the first status name
\* some element of the row shows
extract_status(row) ==
    LET cells == get_row_cells(row)
        found == {i \in 1..Len(status_patterns) :
                     \E c \in 1..Len(row.cells) :
                         Contains(row.cells[c], status_patterns[i])}
    IN  IF Len(cells) >= 4 /\ cells[4] # sEmpty
        THEN normalize_status(cells[4])
        ELSE IF found # {}
        THEN status_patterns[CHOOSE i \in found : \A j \in found : i <= j]
        ELSE sEmpty

\* _extract_deadline, _extract_due_date, _extract_created_on: the cell of
\* the column when it shows a month name
extract_date(row, column) ==
    LET cells == get_row_cells(row)
    IN  IF Len(cells) >= column /\ cells[column] # sEmpty /\ HasMonth(cells[column])
        THEN cells[column] ELSE sEmpty

\* a SAP user id: "I" and digits, at most 8 characters
IsUserId(text) ==
    /\ Len(text) >= 2
    /\ Len(text) <= 8
    /\ text[1] = "I"
    /\ \A i \in 2..Len(text) : IndexIn(Digits, text[i]) > 0

\* _extract_created_by: the seventh cell unless it shows a month name, else
\* the first element of the row that shows a user id
extract_created_by(row) ==
    LET cells == get_row_cells(row)
        ids == {c \in 1..Len(row.cells) : IsUserId(row.cells[c])}
    IN  IF Len(cells) >= 7 /\ cells[7] # sEmpty /\ ~HasMonth(cells[7])
        THEN cells[7]
        ELSE IF ids # {}
        THEN row.cells[CHOOSE c \in ids : \A k \in ids : c <= k]
        ELSE sEmpty

\* header_mappings, in the order of the dictionary
header_mappings ==
    <<<<<<"T", "I", "T", "L", "E">>, "Title">>,
      <<<<"T", "Y", "P", "E">>, "Type">>,
      <<<<"P", "R", "I", "O", "R", "I", "T", "Y">>, "Priority">>,
      <<<<"S", "T", "A", "T", "U", "S">>, "Status">>,
      <<<<"D", "E", "A", "D", "L", "I", "N", "E">>, "Deadline">>,
      <<<<"D", "U", "E", " ", "D", "A", "T", "E">>, "Due Date">>,
      <<<<"C", "R", "E", "A", "T", "E", "D", " ", "B", "Y">>, "Created By">>,
      <<<<"C", "R", "E", "A", "T", "E", "D", " ", "O", "N">>, "Created On">>,
      <<<<"N", "A", "M", "E">>, "Title">>,
      <<<<"I", "S", "S", "U", "E">>, "Title">>,
      <<<<"P", "R", "I", "O">>, "Priority">>,
      <<<<"S", "T", "A", "T", "E">>, "Status">>,
      <<<<"D", "U", "E">>, "Due Date">>>>

\* the key of the first pattern that is, or is part of, the header text;
\* "" when no pattern matches
header_key(header_upper) ==
    LET hits == {i \in 1..Len(header_mappings) :
                    \/ header_mappings[i][1] = header_upper
                    \/ Contains(header_upper, header_mappings[i][1])}
    IN  IF hits = {} THEN ""
        ELSE header_mappings[CHOOSE i \in hits : \A j \in hits : i <= j][2]

EmptyIssue == [f \in FieldNames |-> sEmpty]

\* "for header, index in header_map.items()": the columns from i on
RECURSIVE ApplyHeaders(_, _, _, _)
ApplyHeaders(i, issue_data, cells, header_map) ==
    IF i > Len(header_map) THEN issue_data
    ELSE IF header_map[i] # sEmpty /\ i <= Len(cells)
              /\ header_key(header_map[i]) # ""
         THEN ApplyHeaders(i + 1,
                           [issue_data EXCEPT ![header_key(header_map[i])] = cells[i]],
                           cells, header_map)
         ELSE ApplyHeaders(i + 1, issue_data, cells, header_map)

\* "Issue sin titulo" (the i of the source has an accent)
TitlePlaceholder ==
    <<"I", "s", "s", "u", "e", " ", "s", "i", "n", " ",
      "t", "i", "t", "u", "l", "o">>

\* _extract_by_headers; found is FALSE where the code returns None.
\* header_map is the sequence of the header texts, column by column, a
\* column without header text being ""
extract_by_headers(row, header_map) ==
    LET cells == get_row_cells(row)
        mapped == ApplyHeaders(1, EmptyIssue, cells, header_map)
    IN  IF Len(cells) = 0 THEN [found |-> FALSE, issue_data |-> EmptyIssue]
        ELSE [found |-> TRUE,
              issue_data |->
                  IF mapped["Title"] = sEmpty
                  THEN [mapped EXCEPT !["Title"] =
                           IF cells[1] # sEmpty THEN cells[1] ELSE TitlePlaceholder]
                  ELSE mapped]

\* len(header_map): the number of columns that have a header text
HeaderCount(header_map) == Len(NonEmptyCells(header_map))

\* the record the heuristic extractors build for the row at position index
heuristic_issue(index, row) ==
    LET title == IF extract_title(row) = sEmpty THEN Placeholder(index + 1)
                 ELSE extract_title(row)
        type_text == extract_type(row, title)
        cells == get_row_cells(row)
        issue_data == [f \in FieldNames |->
            CASE f = "Title" -> title
              [] f = "Type" -> type_text
              [] f = "Priority" -> extract_priority(row)
              [] f = "Status" -> extract_status(row)
              [] f = "Deadline" -> extract_date(row, 5)
              [] f = "Due Date" -> extract_date(row, 6)
              [] f = "Created By" -> extract_created_by(row)
              [] OTHER -> extract_date(row, 8)]
    IN  IF type_text = title /\ Len(cells) >= 8
        THEN [f \in FieldNames |->
                 CASE f = "Title" -> IF cells[1] # sEmpty THEN cells[1] ELSE title
                   [] f = "Type" -> cells[2]
                   [] f = "Priority" -> cells[3]
                   [] f = "Status" -> cells[4]
                   [] f = "Deadline" -> cells[5]
                   [] f = "Due Date" -> cells[6]
                   [] f = "Created By" -> cells[7]
                   [] OTHER -> cells[8]]
        ELSE issue_data

\* the record before _validate_and_correct_issue_data: the one read through
\* the header map when there are four headers or more and it has a title,
\* else the one of the heuristic extractors
raw_issue(index, row, header_map) ==
    LET by_headers == extract_by_headers(row, header_map)
    IN  IF HeaderCount(header_map) >= 4 /\ by_headers.found
              /\ by_headers.issue_data["Title"] # sEmpty
        THEN by_headers.issue_data
        ELSE heuristic_issue(index, row)

\* the body of the loop of _process_table_rows for the row at position
\* index: the record appended to issues_data
process_row(index, row, header_map) ==
    validate_and_correct_issue_data(raw_issue(index, row, header_map))

\* header rows: the eight columns named as the fields, or the same columns
\* with "ID" over the first one
StandardHeaders ==
    <<<<"T", "I", "T", "L", "E">>,
      <<"T", "Y", "P", "E">>,
      <<"P", "R", "I", "O", "R", "I", "T", "Y">>,
      <<"S", "T", "A", "T", "U", "S">>,
      <<"D", "E", "A", "D", "L", "I", "N", "E">>,
      <<"D", "U", "E", " ", "D", "A", "T", "E">>,
      <<"C", "R", "E", "A", "T", "E", "D", " ", "B", "Y">>,
      <<"C", "R", "E", "A", "T", "E", "D", " ", "O", "N">>>>

HeadersWithoutTitle == [StandardHeaders EXCEPT ![1] = <<"I", "D">>]

\* the rows the extraction is run on
ExtractRows ==
    {[kind |-> k, cells |-> <<c1, c2, c3, c4, c5, sEmpty, c7, c8>>] :
        k \in {"plain", "labelled"},
        c1 \in {sEmpty, sBug, sFix}, c2 \in {sEmpty, sBug, sFix, sHigh},
        c3 \in {sEmpty, sHigh, shigh, sBug}, c4 \in {sEmpty, sOpen, sHigh},
        c5 \in {sEmpty, sDate}, c7 \in {sEmpty, sUser}, c8 \in {sEmpty, sDate}}

\* one row of a page at position index, with the header map of the page
InitExtract ==
    /\ IdleScroll
    /\ pc = "extract"
    /\ \E row \in ExtractRows, index \in {0, 4},
          header_map \in {<<>>, StandardHeaders, HeadersWithoutTitle} :
          vd = [state |-> "row", index |-> index, row |-> row,
                header_map |-> header_map]

\* _process_table_rows on the row
ProcessRow ==
    /\ pc = "extract"
    /\ vd.state = "row"
    /\ vd' = [vd EXCEPT !.state = "processed"] @@
             [raw |-> raw_issue(vd.index, vd.row, vd.header_map),
              issue |-> process_row(vd.index, vd.row, vd.header_map)]
    /\ UNCHANGED <<fix, dom, element_cache, pc, table_type, has_pagination,
                   total_expected, max_attempts, attempt, previous_rows_count,
                   no_change_count, last, stats, hv>>

\* extract_issues_data, lines 1756-1760: the record is validated once more
\* and added to the result
ReturnRecord ==
    /\ pc = "extract"
    /\ vd.state = "processed"
    /\ vd' = [vd EXCEPT !.state = "returned"] @@
             [record |-> validate_and_correct_issue_data(vd.issue)]
    /\ UNCHANGED <<fix, dom, element_cache, pc, table_type, has_pagination,
                   total_expected, max_attempts, attempt, previous_rows_count,
                   no_change_count, last, stats, hv>>

NextExtract ==
    \/ ProcessRow
    \/ ReturnRecord

SpecExtract == InitExtract /\ [][NextExtract]_vars

\* the texts the row shows: its cells and the first line of its text
RowTexts(row) == {row.cells[i] : i \in 1..Len(row.cells)} \cup {FirstLine(row)}

\* C13: the Priority of every record that extract_issues_data returns is
\* empty or one of Very High, High, Medium, Low, whether the record was read
\* through the header map or by the heuristic extractors, and after the
\* swaps of _validate_and_correct_issue_data.
C13_PriorityInVocabulary ==
    vd.state = "returned" =>
        vd.record["Priority"] \in {sEmpty} \cup PriorityVocabulary

\* C14: the Title of every record that extract_issues_data returns is not
\* empty, and when it is not a text read from the row it is the placeholder
\* "Issue sin titulo #N" with N the position of the row, counted from 1.
C14_TitleOrPlaceholder ==
    vd.state = "returned" =>
        /\ vd.record["Title"] # sEmpty
        /\ vd.record["Title"] \notin RowTexts(vd.row) =>
               vd.record["Title"] = Placeholder(vd.index + 1)

\* the row of scenario C
ScenarioC == <<sFix, sFix, sHigh, sOpen, sEmpty, sEmpty, sEmpty, sEmpty>>

\* C16: for the row of scenario C the returned record has Title "Fix login
\* bug", an empty Type, Priority "High" and Status "OPEN", and its Title is
\* the one it had before validation.
C16_ScenarioC ==
    (vd.state = "returned" /\ vd.row.cells = ScenarioC) =>
        /\ vd.record["Title"] = sFix
        /\ vd.record["Title"] = vd.raw["Title"]
        /\ vd.record["Type"] = sEmpty
        /\ vd.record["Priority"] = pHigh
        /\ vd.record["Status"] = kOPEN

\* the row of scenario C read through the header map, where Type came out as
\* a copy of Title and validation emptied it
C16_Witness ==
    /\ vd.state = "returned"
    /\ vd.row.cells = ScenarioC
    /\ vd.raw["Type"] = sFix
    /\ vd.raw["Title"] = sFix
    /\ vd.record["Type"] = sEmpty
    /\ vd.record["Title"] = sFix

(***************************************************************************)
(* IssuesExtractor.perform_extraction, lines 3449-3521, on top of          *)
(* extract_issues_data, with a browser session that can be lost.           *)
(*                                                                         *)
(* The page is one screen of page_rows rows without pagination; rows can   *)
(* show up between two attempts.  Once the session is gone every call on   *)
(* the driver raises: the helpers of extract_issues_data catch it and      *)
(* find_table_rows gives an empty list (lines 1560-1619), so the page loop *)
(* breaks at line 1747-1749; whatever a helper lets through is caught at   *)
(* line 1792 and answered with [] as well.                                 *)
(***************************************************************************)
\* the most rows the page of this specification shows
MaxSessionRows == 6

\* max_attempts of perform_extraction, line 3450
ExtractionAttempts == 3

\* extract_issues_data: [] when the session is gone before the rows are
\* located; else one record for each row of the page, read from the row
\* while the session lives (the first "live" rows) and, for a row reached
\* after the session was lost, the placeholder title with empty fields,
\* because every extractor catches the error of the driver
extract_issues_data(session, page_rows, live) ==
    IF session = "gone" THEN <<>>
    ELSE [i \in 1..page_rows |->
             IF i <= live THEN <<"R">> \o Decimal(i) ELSE Placeholder(i)]

\* what a call of extract_issues_data was: a failure of the collaborator, a
\* harvest of zero records or a harvest of records
Outcome(session, page_rows, live) ==
    IF session = "gone" \/ live < page_rows THEN "failure"
    ELSE IF page_rows = 0 THEN "empty"
    ELSE "records"

\* "if issues_data:", line 3460
attempt_succeeded(issues_data) == Len(issues_data) > 0

InitSession ==
    /\ IdleScroll
    /\ pc = "perform"
    /\ \E n \in 0..MaxSessionRows :
          vd = [state |-> "attempt", session |-> "alive", page_rows |-> n,
                attempt |-> 0, issues_data |-> <<>>, outcome |-> "none",
                result |-> "none"]

\* the browser is closed or crashes
SessionLost ==
    /\ pc = "perform"
    /\ vd.state = "attempt"
    /\ vd.session = "alive"
    /\ vd' = [vd EXCEPT !.session = "gone"]
    /\ UNCHANGED <<fix, dom, element_cache, pc, table_type, has_pagination,
                   total_expected, max_attempts, attempt, previous_rows_count,
                   no_change_count, last, stats, hv>>

\* the page shows one row more
PageLoads ==
    /\ pc = "perform"
    /\ vd.state = "attempt"
    /\ vd.session = "alive"
    /\ vd.page_rows < MaxSessionRows
    /\ vd' = [vd EXCEPT !.page_rows = @ + 1]
    /\ UNCHANGED <<fix, dom, element_cache, pc, table_type, has_pagination,
                   total_expected, max_attempts, attempt, previous_rows_count,
                   no_change_count, last, stats, hv>>

\* one turn of the loop of perform_extraction: True on the first list that
\* is not empty, False when the last attempt gave an empty list.  The
\* session can be lost while the rows are processed, after "live" of them.
ExtractionAttempt ==
    /\ pc = "perform"
    /\ vd.state = "attempt"
    /\ \E live \in (IF vd.session = "alive" THEN 0..vd.page_rows ELSE {0}) :
          LET issues_data == extract_issues_data(vd.session, vd.page_rows, live)
              outcome == Outcome(vd.session, vd.page_rows, live)
              session == IF live < vd.page_rows THEN "gone" ELSE vd.session
          IN  IF attempt_succeeded(issues_data)
              THEN vd' = [vd EXCEPT !.state = "done", !.session = session,
                                    !.issues_data = issues_data,
                                    !.outcome = outcome, !.result = "True"]
              ELSE IF vd.attempt < ExtractionAttempts - 1
              THEN vd' = [vd EXCEPT !.attempt = @ + 1, !.session = session,
                                    !.issues_data = issues_data,
                                    !.outcome = outcome]
              ELSE vd' = [vd EXCEPT !.state = "done", !.session = session,
                                    !.issues_data = issues_data,
                                    !.outcome = outcome, !.result = "False"]
    /\ UNCHANGED <<fix, dom, element_cache, pc, table_type, has_pagination,
                   total_expected, max_attempts, attempt, previous_rows_count,
                   no_change_count, last, stats, hv>>

NextSession ==
    \/ SessionLost
    \/ PageLoads
    \/ ExtractionAttempt

SpecSession == InitSession /\ [][NextSession]_vars

\* what extract_issues_data returns for a page without rows
EmptyHarvest == extract_issues_data("alive", 0, 0)

\* C17: a call of extract_issues_data that met a lost session does not
\* return what a harvest of zero records returns, and perform_extraction
\* does not end on such a call with the result it gives when the last
\* harvest found zero records.
C17_FailureDistinct ==
    vd.outcome = "failure" =>
        /\ vd.issues_data # EmptyHarvest
        /\ vd.state = "done" =>
               vd.result # (IF attempt_succeeded(EmptyHarvest)
                            THEN "True" ELSE "False")

(***************************************************************************)
(* The row cache of find_table_rows with the exact time since its fill.    *)
(*                                                                         *)
(* vd.elapsed is the time in ms between the fill of the entry "table_rows" *)
(* and now (datetime.now() - cache_time); element_cache.age is its part    *)
(* below the TTL, as in the other specifications.  The page is one screen  *)
(* that renders CacheStep rows more with each scroll.                      *)
(***************************************************************************)
\* the waits between two calls, in ms
CacheWaits == {1, 2499, 2500, 5000}

\* the most waits of a run
MaxTicks == 3

\* rows of the page of this specification and rows a scroll adds
CacheRows == 6

CacheStep == 2

cache_valid_inclusive(elapsed) == elapsed <= CacheTTL

\* "(datetime.now() - cache_time).total_seconds() < 5", line 1527
cache_valid(elapsed) == elapsed < CacheTTL

\* find_table_rows() called elapsed ms after the fill of the entry: the
\* cached rows, or a query of the page whose result replaces the entry
find_table_rows_at(d, cache, elapsed) ==
    IF cache.has /\ cache_valid(elapsed)
    THEN [rows |-> cache.rows, cache |-> cache, hit |-> TRUE]
    ELSE [rows |-> Located(d),
          cache |-> [has |-> TRUE, rows |-> Located(d), screen |-> d.screen,
                     age |-> 0],
          hit |-> FALSE]

InitCache ==
    /\ fix = [kind |-> "det", sizes |-> <<CacheRows>>, pager |-> "none",
              lastCtl |-> "disabled", step |-> CacheStep, batch |-> 0,
              fp |-> fpUnknown, match |-> {1}, fallback |-> FALSE,
              counter |-> -1, distinct |-> TRUE, titles |-> <<>>]
    /\ dom = [screen |-> 1, rendered |-> CacheStep, limit |-> CacheRows]
    /\ element_cache = EmptyCache
    /\ pc = "cache"
    /\ table_type = "unknown"
    /\ has_pagination = FALSE
    /\ total_expected = 0
    /\ max_attempts = 0
    /\ attempt = 0
    /\ previous_rows_count = 0
    /\ no_change_count = 0
    /\ last = NoLast
    /\ stats = NoStats
    /\ hv = NoHarvest
    /\ vd = [state |-> "idle", elapsed |-> 0, ticks |-> 0,
             before |-> EmptyCache, at |-> 0, rows |-> 0, hit |-> FALSE,
             located |-> 0]

\* time passes
CacheTick ==
    /\ pc = "cache"
    /\ vd.ticks < MaxTicks
    /\ \E ms \in CacheWaits :
          /\ vd' = [vd EXCEPT !.state = "idle", !.elapsed = @ + ms,
                               !.ticks = @ + 1]
          /\ element_cache' = Slept(element_cache, ms)
    /\ UNCHANGED <<fix, dom, pc, table_type, has_pagination, total_expected,
                   max_attempts, attempt, previous_rows_count, no_change_count,
                   last, stats, hv>>

\* a scroll renders more rows
CacheScroll ==
    /\ pc = "cache"
    /\ dom.rendered < ScreenSize(dom)
    /\ dom' \in scroll_action(dom, "none")
    /\ vd' = [vd EXCEPT !.state = "idle"]
    /\ UNCHANGED <<fix, element_cache, pc, table_type, has_pagination,
                   total_expected, max_attempts, attempt, previous_rows_count,
                   no_change_count, last, stats, hv>>

\* one call of find_table_rows
CacheCall ==
    /\ pc = "cache"
    /\ LET found == find_table_rows_at(dom, element_cache, vd.elapsed)
       IN  /\ element_cache' = found.cache
           /\ vd' = [vd EXCEPT !.state = "called",
                                !.elapsed = IF found.hit THEN @ ELSE 0,
                                !.before = element_cache,
                                !.at = vd.elapsed,
                                !.rows = found.rows,
                                !.hit = found.hit,
                                !.located = Located(dom)]
    /\ UNCHANGED <<fix, dom, pc, table_type, has_pagination, total_expected,
                   max_attempts, attempt, previous_rows_count, no_change_count,
                   last, stats, hv>>

NextCache ==
    \/ CacheTick
    \/ CacheScroll
    \/ CacheCall

SpecCache == InitCache /\ [][NextCache]_vars

\* C20: a call of find_table_rows made less than 5 s after the fill of the
\* entry returns the cached rows without a query and leaves the entry as
\* it is; a call made 5 s or more after the fill queries the page, returns
\* the rows found and replaces the entry by them with a new timestamp.
C20_CacheWindow ==
    (vd.state = "called" /\ vd.before.has) =>
        IF vd.at < CacheTTL
        THEN /\ vd.hit
             /\ vd.rows = vd.before.rows
             /\ element_cache = vd.before
        ELSE /\ ~vd.hit
             /\ vd.rows = vd.located
             /\ element_cache = [has |-> TRUE, rows |-> vd.located,
                                 screen |-> dom.screen, age |-> 0]
             /\ vd.elapsed = 0

\* a call exactly 5 s after the fill, on a page that has rendered more rows
\* since: it returns the rows of the page, not the cached ones
C20_Witness ==
    /\ vd.state = "called"
    /\ vd.before.has
    /\ vd.at = CacheTTL
    /\ ~vd.hit
    /\ vd.rows > vd.before.rows
    /\ element_cache.rows = vd.rows
    /\ element_cache.age = 0

\* a call 4999 ms after the fill, on a page that has rendered more rows
\* since: it returns the cached rows
C20_WitnessHit ==
    /\ vd.state = "called"
    /\ vd.before.has
    /\ vd.at = CacheTTL - 1
    /\ vd.hit
    /\ vd.rows < vd.located

(***************************************************************************)
(* The removal of duplicates at the end of find_table_rows, lines          *)
(* 1631-1652.                                                              *)
(*                                                                         *)
(* A handle has the identity the driver gave it (id, "none" where reading  *)
(* row.id raises), the text and the class attribute of its element, and    *)
(* readable says whether text and class can be read.  The identities of    *)
(* the driver have no "|", which every signature has, so an identity and a *)
(* signature are never the same member of seen_ids.                        *)
(***************************************************************************)
\* the most handles the cascade hands over
MaxHandles == 4

\* "row.text[:50]", line 1644
SignatureLength == 50

\* a text of n times the letter x
RECURSIVE Filler(_)
Filler(n) == IF n = 0 THEN <<>> ELSE <<"x">> \o Filler(n - 1)

\* text[:n]
Truncate(text, n) == SubSeq(text, 1, Min(Len(text), n))

\* three row texts: the first two differ after their first 50 characters
\* only, the third differs from them in the 50th
RowTextA == Filler(SignatureLength - 1) \o <<"A">>

RowTextAB == Filler(SignatureLength - 1) \o <<"A", "B">>

RowTextB == Filler(SignatureLength - 1) \o <<"B">>

Handles ==
    {[id |-> i, text |-> RowTextA, class |-> "sapMLIB", readable |-> TRUE]
        : i \in {"e1", "e2"}}
    \cup
    {[id |-> "none", text |-> t, class |-> c, readable |-> r]
        : t \in {RowTextA, RowTextAB, RowTextB}, c \in {"sapMLIB"},
          r \in BOOLEAN}

row_key_unique(row, position) == <<"position", position>>

\* what the loop looks up in seen_ids for the row: its identity, else its
\* signature of truncated text and class; "none" when neither can be read
\* and the row is appended without a look-up
row_key(row, position) ==
    IF row.id # "none" THEN <<"id", row.id>>
    ELSE IF row.readable
    THEN <<"signature", Truncate(row.text, SignatureLength), row.class>>
    ELSE "none"

\* the loop of lines 1635-1652 from the row at position i on
RECURSIVE unique_rows_from(_, _, _, _)
unique_rows_from(all_rows, i, seen_ids, unique_rows) ==
    IF i > Len(all_rows) THEN unique_rows
    ELSE LET key == row_key(all_rows[i], i)
         IN  IF key = "none"
             THEN unique_rows_from(all_rows, i + 1, seen_ids,
                                   Append(unique_rows, i))
             ELSE IF key \notin seen_ids
             THEN unique_rows_from(all_rows, i + 1, seen_ids \cup {key},
                                   Append(unique_rows, i))
             ELSE unique_rows_from(all_rows, i + 1, seen_ids, unique_rows)

\* the positions in all_rows of the rows that are returned, in the order
\* they are returned
unique_positions(all_rows) == unique_rows_from(all_rows, 1, {}, <<>>)

HandleLists == UNION {[1..n -> Handles] : n \in 0..MaxHandles}

InitDedup ==
    /\ IdleScroll
    /\ pc = "dedup"
    /\ \E all_rows \in HandleLists :
          vd = [state |-> "all_rows", all_rows |-> all_rows, kept |-> <<>>,
                unique_rows |-> <<>>]

\* lines 1631-1659: the duplicates are removed, the entry of the cache is
\* replaced and the rows are returned
RemoveDuplicates ==
    /\ pc = "dedup"
    /\ vd.state = "all_rows"
    /\ LET kept == unique_positions(vd.all_rows)
       IN  /\ vd' = [vd EXCEPT !.state = "returned", !.kept = kept,
                                !.unique_rows =
                                    [k \in 1..Len(kept) |-> vd.all_rows[kept[k]]]]
           /\ element_cache' = [has |-> TRUE, rows |-> Len(kept),
                                screen |-> dom.screen, age |-> 0]
    /\ UNCHANGED <<fix, dom, pc, table_type, has_pagination, total_expected,
                   max_attempts, attempt, previous_rows_count, no_change_count,
                   last, stats, hv>>

SpecDedup == InitDedup /\ [][RemoveDuplicates]_vars

\* two handles count as the same row: same identity, or, both without
\* identity, same readable signature
SameRow(a, b) ==
    \/ a.id # "none" /\ a.id = b.id
    \/ /\ a.id = "none" /\ b.id = "none"
       /\ a.readable /\ b.readable
       /\ Truncate(a.text, SignatureLength) = Truncate(b.text, SignatureLength)
       /\ a.class = b.class

\* C21: the rows find_table_rows returns hold no two handles with the same
\* identity or, without identity, the same signature; they are the rows of
\* all_rows that have no such handle before them, in the order of all_rows.
C21_FirstOccurrencesKept ==
    vd.state = "returned" =>
        /\ \A i, j \in 1..Len(vd.unique_rows) :
               i < j => ~SameRow(vd.unique_rows[i], vd.unique_rows[j])
        /\ \A k \in 1..(Len(vd.kept) - 1) : vd.kept[k] < vd.kept[k + 1]
        /\ \A p \in 1..Len(vd.all_rows) :
               (\E k \in 1..Len(vd.kept) : vd.kept[k] = p)
                   <=> ~\E q \in 1..(p - 1) : SameRow(vd.all_rows[q], vd.all_rows[p])

\* a list with a repeated identity and a repeated signature, of which the
\* first occurrences are returned
C21_Witness ==
    /\ vd.state = "returned"
    /\ Len(vd.all_rows) = MaxHandles
    /\ vd.kept = <<1, 3>>
    /\ vd.all_rows[1].id = "e1"
    /\ vd.all_rows[2].id = "e1"
    /\ vd.all_rows[3].id = "none"
    /\ vd.all_rows[3].text = RowTextA
    /\ vd.all_rows[4].text = RowTextAB
    /\ vd.all_rows[4].id = "none"

(***************************************************************************)
(* _detect_table_type with probes that can fail, lines 1806-1823.          *)
(***************************************************************************)
\* the most elements a fingerprint matches on the pages of this
\* specification
MaxFingerprint == 2

\* the three probes, in the order they are made; 0 stands for "no probe
\* raises"
Probes == <<"standard_ui5", "responsive_table", "grid_table">>

detect_table_type_probed_lenient(fp, failed) ==
    detect_table_type([fp EXCEPT ![Probes[IF failed = 0 THEN 1 ELSE failed]] =
                          IF failed = 0 THEN @ ELSE 0])

\* _detect_table_type on a page with the fingerprint counts fp when the
\* probe number failed raises: the three probes are made before the first
\* comparison, so any failure gives "unknown"
detect_table_type_probed(fp, failed) ==
    IF failed # 0 THEN "unknown" ELSE detect_table_type(fp)

InitClassify ==
    /\ IdleScroll
    /\ pc = "classify"
    /\ \E a, b, c \in 0..MaxFingerprint, failed \in 0..Len(Probes) :
          vd = [state |-> "page",
                fp |-> [standard_ui5 |-> a, responsive_table |-> b,
                        grid_table |-> c],
                failed |-> failed]

\* table_type = self._detect_table_type(), line 1437
Classify ==
    /\ pc = "classify"
    /\ vd.state = "page"
    /\ table_type' = detect_table_type_probed(vd.fp, vd.failed)
    /\ vd' = [vd EXCEPT !.state = "classified"]
    /\ UNCHANGED <<fix, dom, element_cache, pc, has_pagination,
                   total_expected, max_attempts, attempt, previous_rows_count,
                   no_change_count, last, stats, hv>>

SpecClassify == InitClassify /\ [][Classify]_vars

\* C22: _detect_table_type returns one of its four values: "unknown" when a
\* probe fails or the three counts are 0, else the first of standard_ui5,
\* responsive_table, grid_table whose count is greater than 0.
C22_FirstFingerprint ==
    vd.state = "classified" =>
        /\ table_type \in {"standard_ui5", "responsive_table", "grid_table",
                           "unknown"}
        /\ table_type = "standard_ui5" <=>
               (vd.failed = 0 /\ vd.fp.standard_ui5 > 0)
        /\ table_type = "responsive_table" <=>
               (vd.failed = 0 /\ vd.fp.standard_ui5 = 0
                   /\ vd.fp.responsive_table > 0)
        /\ table_type = "grid_table" <=>
               (vd.failed = 0 /\ vd.fp.standard_ui5 = 0
                   /\ vd.fp.responsive_table = 0 /\ vd.fp.grid_table > 0)

\* a classic table on the page and a third probe that raises: "unknown"
C22_Witness ==
    /\ vd.state = "classified"
    /\ vd.failed = 3
    /\ vd.fp.standard_ui5 > 0
    /\ table_type = "unknown"

(***************************************************************************)
(* A harvest whose caller asks it to stop.                                 *)
(*                                                                         *)
(* The request is vd.state = "stop_requested".  Neither the loop of        *)
(* scroll_to_load_all_items (lines 1450-1510) nor the page loop of         *)
(* extract_issues_data (lines 1741-1786) reads a flag of the caller, so    *)
(* the actions of the harvest are the ones of SpecHarvest.                 *)
(***************************************************************************)
\* the caller asks the running harvest to stop
RequestStop ==
    /\ pc # "harvest_done"
    /\ vd = NoValidation
    /\ vd' = [state |-> "stop_requested"]
    /\ UNCHANGED <<fix, dom, element_cache, pc, table_type, has_pagination,
                   total_expected, max_attempts, attempt, previous_rows_count,
                   no_change_count, last, stats, hv>>

NextStop ==
    \/ RequestStop
    \/ HarvestStart
    \/ ScrollStart
    \/ ScrollIter
    \/ ScrollReturn
    \/ HarvestCheck
    \/ HarvestPage

SpecStop == InitHarvest /\ [][NextStop]_vars

\* C23: once the caller has asked the harvest to stop, no iteration of the
\* scroll loop and no round of the page loop begins.
C23_StopsBeforeNextIteration ==
    [][vd.state = "stop_requested" =>
          /\ attempt' # attempt + 1
          /\ hv'.rounds # hv.rounds + 1]_vars

(***************************************************************************)
(* The extraction workers of the GUI: start_extraction,                    *)
(* _fill_fields_and_extract and the first and last lines of                *)
(* perform_extraction.                                                     *)
(*                                                                         *)
(* vd.processing is IssuesExtractor.processing; vd.workers[w] is the place *)
(* worker thread w has reached: "none" (not started), "customer",          *)
(* "project", "search" (the three steps of _fill_fields_and_extract that   *)
(* drive the browser), "perform" (about to call perform_extraction),       *)
(* "extracting" (inside perform_extraction) and "done".  The Excel file is *)
(* chosen and the browser is open.  The button and the F5 key that call    *)
(* start_extraction stay enabled while a worker runs.                      *)
(***************************************************************************)
\* the most worker threads of a run
MaxWorkers == 3

NoWorkers == [w \in 1..MaxWorkers |-> "none"]

\* the workers that drive the browser
Driving(workers) ==
    {w \in 1..Len(workers) : workers[w] \notin {"none", "done"}}

\* "if self.processing: ... return", line 4688
start_allowed(processing, workers) == ~processing

InitWorkers ==
    /\ IdleScroll
    /\ pc = "gui"
    /\ vd = [processing |-> FALSE, workers |-> NoWorkers, refused |-> 0]

\* start_extraction: a click on the button or F5
StartExtraction ==
    /\ pc = "gui"
    /\ IF start_allowed(vd.processing, vd.workers)
       THEN \E w \in 1..MaxWorkers :
               /\ vd.workers[w] = "none"
               /\ \A v \in 1..(w - 1) : vd.workers[v] # "none"
               /\ vd' = [vd EXCEPT !.workers[w] = "customer"]
       ELSE /\ vd.refused < MaxWorkers
            /\ vd' = [vd EXCEPT !.refused = @ + 1]
    /\ UNCHANGED <<fix, dom, element_cache, pc, table_type, has_pagination,
                   total_expected, max_attempts, attempt, previous_rows_count,
                   no_change_count, last, stats, hv>>

\* _fill_fields_and_extract: select_customer_automatically
SelectCustomer ==
    /\ pc = "gui"
    /\ \E w \in 1..MaxWorkers :
          /\ vd.workers[w] = "customer"
          /\ vd' = [vd EXCEPT !.workers[w] = "project"]
    /\ UNCHANGED <<fix, dom, element_cache, pc, table_type, has_pagination,
                   total_expected, max_attempts, attempt, previous_rows_count,
                   no_change_count, last, stats, hv>>

\* _fill_fields_and_extract: select_project_automatically
SelectProject ==
    /\ pc = "gui"
    /\ \E w \in 1..MaxWorkers :
          /\ vd.workers[w] = "project"
          /\ vd' = [vd EXCEPT !.workers[w] = "search"]
    /\ UNCHANGED <<fix, dom, element_cache, pc, table_type, has_pagination,
                   total_expected, max_attempts, attempt, previous_rows_count,
                   no_change_count, last, stats, hv>>

\* _fill_fields_and_extract: click_search_button
ClickSearch ==
    /\ pc = "gui"
    /\ \E w \in 1..MaxWorkers :
          /\ vd.workers[w] = "search"
          /\ vd' = [vd EXCEPT !.workers[w] = "perform"]
    /\ UNCHANGED <<fix, dom, element_cache, pc, table_type, has_pagination,
                   total_expected, max_attempts, attempt, previous_rows_count,
                   no_change_count, last, stats, hv>>

\* perform_extraction, line 3346: self.processing = True
BeginExtraction ==
    /\ pc = "gui"
    /\ \E w \in 1..MaxWorkers :
          /\ vd.workers[w] = "perform"
          /\ vd' = [vd EXCEPT !.workers[w] = "extracting", !.processing = TRUE]
    /\ UNCHANGED <<fix, dom, element_cache, pc, table_type, has_pagination,
                   total_expected, max_attempts, attempt, previous_rows_count,
                   no_change_count, last, stats, hv>>

\* perform_extraction returns: self.processing = False
EndExtraction ==
    /\ pc = "gui"
    /\ \E w \in 1..MaxWorkers :
          /\ vd.workers[w] = "extracting"
          /\ vd' = [vd EXCEPT !.workers[w] = "done", !.processing = FALSE]
    /\ UNCHANGED <<fix, dom, element_cache, pc, table_type, has_pagination,
                   total_expected, max_attempts, attempt, previous_rows_count,
                   no_change_count, last, stats, hv>>

NextWorkers ==
    \/ StartExtraction
    \/ SelectCustomer
    \/ SelectProject
    \/ ClickSearch
    \/ BeginExtraction
    \/ EndExtraction

SpecWorkers == InitWorkers /\ [][NextWorkers]_vars

\* C24: at most one extraction worker drives the browser at any time.
C24_OneWorker == Cardinality(Driving(vd.workers)) <= 1

(***************************************************************************)
(* scroll_to_load_all_items on pages with and without pagination controls  *)
(***************************************************************************)
\* two screens behind a pager, a "Next" link or a dead control, or one
\* screen that shows a "show more" button once its first rows are rendered
FixturesPaged ==
    {[kind |-> "det", sizes |-> <<2, 3>>, pager |-> pg, lastCtl |-> lc,
      step |-> 1, batch |-> 0, fp |-> fpUnknown, match |-> {1},
      fallback |-> FALSE, counter |-> -1, distinct |-> TRUE, titles |-> <<>>]
        : pg \in {"next", "link", "inert", "none"},
          lc \in {"disabled", "absent"}}
    \cup
    {[kind |-> "det", sizes |-> <<4>>, pager |-> "more", lastCtl |-> "absent",
      step |-> 1, batch |-> 2, fp |-> fpUnknown, match |-> {1},
      fallback |-> FALSE, counter |-> -1, distinct |-> TRUE, titles |-> <<>>]}

\* scroll_to_load_all_items(ExpectedFree) on such a page, of which no row
\* is rendered yet
InitPaged ==
    /\ \E f \in FixturesPaged :
          Start(f, 0, IF f.pager = "more" THEN 2 ELSE f.sizes[1])
    /\ pc = "scroll_start"
    /\ total_expected = ExpectedFree
    /\ max_attempts = DefaultMaxAttempts

SpecPaged == InitPaged /\ [][Next]_vars

\* one iteration of the scroll loop that has counted the rows (one that
\* ends in the handler of line 1508 has no row count)
IterationStep == attempt' = attempt + 1 /\ last'.why # "caught"

\* the iteration called click_pagination_next
AdvanceAttempted == stats'.next_calls = stats.next_calls + 1

\* the iteration took the page to its next screen
PageAdvanced == dom'.screen = dom.screen + 1

\* the rules of the streak: 0 after a successful advance and after a
\* changed row count, one more after every other iteration
StreakRules(advanced) ==
    /\ advanced => no_change_count' = 0
    /\ last'.cur # previous_rows_count => no_change_count' = 0
    /\ (last'.cur = previous_rows_count /\ ~advanced) =>
           no_change_count' = no_change_count + 1

\* when an advance may be attempted: unchanged row count, streak of 5 or
\* more, controls detected before the loop
AdvanceGate ==
    /\ last'.cur = previous_rows_count
    /\ no_change_count + 1 >= 5
    /\ has_pagination

\* C25 as stated: every advance to a next page made inside the loop, and
\* every attempt of one, happens in an iteration with unchanged row count
\* and a streak of 5 or more, on a page whose controls were detected before
\* the loop; an advance resets the streak, a changed count resets it, every
\* other iteration raises it by 1.
C25_Original ==
    [][IterationStep =>
          /\ (AdvanceAttempted \/ PageAdvanced) => AdvanceGate
          /\ StreakRules(last'.adv \/ PageAdvanced)]_vars

\* C25: click_pagination_next is called only in an iteration with unchanged
\* row count and a streak of 5 or more, on a page whose controls were
\* detected before the loop; when it succeeds the streak is 0, a changed
\* count resets it, every other iteration raises it by 1.
C25_AdvanceGated ==
    [][IterationStep =>
          /\ AdvanceAttempted => AdvanceGate
          /\ last'.adv => AdvanceAttempted
          /\ StreakRules(last'.adv)]_vars

\* a successful advance at the streak of 5 has left the streak at 0 and
\* the page on its second screen
C25_Witness ==
    /\ last.adv
    /\ last.ncc = PaginationStreak
    /\ no_change_count = 0
    /\ has_pagination
    /\ dom.screen = 2
    /\ stats.next_ok = 1

(***************************************************************************)
(* click_pagination_next on a list of pagination elements, lines 1338-1418 *)
(*                                                                         *)
(* An element is [next, disabled]: next says whether its aria-label, text  *)
(* or class matches the patterns of a "next" control, disabled whether its *)
(* disabled or aria-disabled attribute is "true".  Every click succeeds.   *)
(***************************************************************************)
\* the most elements check_for_pagination hands over
MaxControls == 3

Controls == [next : BOOLEAN, disabled : BOOLEAN]

ControlLists == UNION {[1..n -> Controls] : n \in 0..MaxControls}

\* the position of the first element that matches the patterns, 0 if none
next_button(pagination_elements) ==
    LET hits == {i \in 1..Len(pagination_elements) : pagination_elements[i].next}
    IN  IF hits = {} THEN 0 ELSE CHOOSE i \in hits : \A j \in hits : i <= j

\* click_pagination_next: ok is the boolean returned, clicked the position
\* of the element that was clicked, 0 if none was
click_pagination_next_on(pagination_elements) ==
    LET nb == next_button(pagination_elements)
    IN  IF Len(pagination_elements) = 0 THEN [ok |-> FALSE, clicked |-> 0]
        ELSE IF nb # 0
        THEN (IF pagination_elements[nb].disabled
              THEN [ok |-> FALSE, clicked |-> 0]
              ELSE [ok |-> TRUE, clicked |-> nb])
        ELSE [ok |-> TRUE, clicked |-> Len(pagination_elements)]

InitClick ==
    /\ IdleScroll
    /\ pc = "click"
    /\ \E pagination_elements \in ControlLists :
          vd = [state |-> "elements",
                pagination_elements |-> pagination_elements,
                ok |-> FALSE, clicked |-> 0]

ClickPaginationNext ==
    /\ pc = "click"
    /\ vd.state = "elements"
    /\ LET result == click_pagination_next_on(vd.pagination_elements)
       IN  vd' = [vd EXCEPT !.state = "returned", !.ok = result.ok,
                            !.clicked = result.clicked]
    /\ UNCHANGED <<fix, dom, element_cache, pc, table_type, has_pagination,
                   total_expected, max_attempts, attempt, previous_rows_count,
                   no_change_count, last, stats, hv>>

SpecClick == InitClick /\ [][ClickPaginationNext]_vars

\* the element the advance would click: the matched next control, else the
\* last element of the list
ClickTarget(pagination_elements) ==
    IF next_button(pagination_elements) # 0
    THEN next_button(pagination_elements)
    ELSE Len(pagination_elements)

\* C26: when the element that click_pagination_next would click is
\* disabled, it returns False and clicks nothing.
C26_DisabledIsFailure ==
    (/\ vd.state = "returned"
     /\ Len(vd.pagination_elements) > 0
     /\ vd.pagination_elements[ClickTarget(vd.pagination_elements)].disabled)
        => (~vd.ok /\ vd.clicked = 0)

(***************************************************************************)
(* The selector cascade of find_table_rows with its own yield for each     *)
(* selector, lines 1559-1594.                                              *)
(***************************************************************************)
\* the selectors of the cascades of this specification
CascadeLength == 4

\* the numbers of valid rows a selector yields
YieldCounts == {0, 1, 2, EarlyExitRows - 1, EarlyExitRows, EarlyExitRows + 1}

\* the loop over the selectors from selector i on; chosen is the selector
\* whose valid rows all_rows holds, 0 while all_rows is empty
RECURSIVE cascade_from(_, _, _)
cascade_from(yields, i, chosen) ==
    IF i > Len(yields) THEN chosen
    ELSE IF yields[i] > 0
         THEN (IF yields[i] >= EarlyExitRows THEN i
               ELSE cascade_from(yields, i + 1, i))
         ELSE cascade_from(yields, i + 1, chosen)

InitCascade ==
    /\ IdleScroll
    /\ pc = "cascade"
    /\ \E yields \in [1..CascadeLength -> YieldCounts] :
          vd = [state |-> "page", yields |-> yields, chosen |-> 0, rows |-> 0]

\* lines 1559-1594
RunCascade ==
    /\ pc = "cascade"
    /\ vd.state = "page"
    /\ LET chosen == cascade_from(vd.yields, 1, 0)
       IN  vd' = [vd EXCEPT !.state = "located", !.chosen = chosen,
                            !.rows = IF chosen = 0 THEN 0 ELSE vd.yields[chosen]]
    /\ UNCHANGED <<fix, dom, element_cache, pc, table_type, has_pagination,
                   total_expected, max_attempts, attempt, previous_rows_count,
                   no_change_count, last, stats, hv>>

SpecCascade == InitCascade /\ [][RunCascade]_vars

\* the first selector of the set, 0 for the empty set
FirstOf(selectors) ==
    IF selectors = {} THEN 0
    ELSE CHOOSE i \in selectors : \A j \in selectors : i <= j

\* C27: the cascade returns the rows of the first selector that yields 75
\* valid rows or more and, when none does, the rows of the earliest
\* selector that yields at least one.
C27_FirstSuccessWins ==
    vd.state = "located" =>
        LET big == {i \in 1..Len(vd.yields) : vd.yields[i] >= EarlyExitRows}
            any == {i \in 1..Len(vd.yields) : vd.yields[i] > 0}
        IN  vd.chosen = (IF big # {} THEN FirstOf(big) ELSE FirstOf(any))

\* the first of Priority, Type, Deadline whose value in the record contains
\* a status keyword, "" if none does
StatusDonor(r) ==
    LET fields == <<"Priority", "Type", "Deadline">>
        i == FirstField(fields, r, StatusLike)
    IN  IF i = 0 THEN "" ELSE fields[i]

\* the Status of the record is not empty and contains no status keyword,
\* and one of Priority, Type, Deadline holds a value that does
StatusMisplaced(r) ==
    /\ r["Status"] # sEmpty
    /\ r["Status"] \notin StatusLike
    /\ StatusDonor(r) # ""

\* C28: a record whose Status fails the vocabulary while Priority, Type or
\* Deadline holds a status comes back from _validate_and_correct_issue_data
\* with that status in Status and with its former Status value in the field
\* that held the status.
C28_StatusSwapStays ==
    (vd.state = "once" /\ StatusMisplaced(vd.input)) =>
        /\ vd.once["Status"] \in StatusLike
        /\ vd.once["Status"] = vd.input[StatusDonor(vd.input)]
        /\ vd.once[StatusDonor(vd.input)] = vd.input["Status"]

\* C29: the page goes to its next screen only in a round of the page loop
\* of extract_issues_data that has passed the rows of the screen it leaves
\* to _process_table_rows; the scroll loop never leaves a screen.
C29_NoPageSkipped ==
    [][dom'.screen > dom.screen =>
          /\ pc = "harvest_pages"
          /\ hv'.rounds = hv.rounds + 1
          /\ element_cache'.screen = dom.screen]_vars

\* C30: an iteration of the scroll loop that makes no pagination click and
\* runs no alternative strategy raises the streak only when the page shows
\* after its scroll as many rows as it showed before it; the count of a
\* cached row list never raises the streak on a page that has grown.
C30_StreakOnRealCount ==
    [][(/\ IterationStep
        /\ no_change_count' = no_change_count + 1
        /\ no_change_count' < PaginationStreak)
          => Located(dom') = Located(dom)]_vars

====
